---- MODULE Spec2Model ----
(***************************************************************************)
(* Model of the product-adoption copilot: the rule-based analysis engine   *)
(* (src/src/tools/analysis.py), the data model (src/src/data/models.py),   *)
(* the trend memory (src/src/memory/context.py) and the orchestrating      *)
(* agent (src/src/agent/core.py).                                          *)
(*                                                                         *)
(* Dates are day numbers; (datetime.now() - d).days is now - d.            *)
(* usage_frequency and usage_frequency_target are percentages.             *)
(* Python floats that the code adds and compares (the churn score and the  *)
(* trend thresholds) are IEEE-754 doubles, modelled exactly: a double is a *)
(* signed integer multiple of 2^-56 kept in two limbs of 28 bits, and the  *)
(* result of + and - is rounded to 53 significant bits, ties to even.      *)
(***************************************************************************)
EXTENDS Integers, Sequences, FiniteSets, TLC

(***************************************************************************)
(* IEEE-754 double arithmetic on multiples of 2^-56.                       *)
(* value(f) = (-1)^neg * (hi * 2^28 + lo) * 2^-56                          *)
(***************************************************************************)
Limb == 2^28

Dbl(h, l) == [neg |-> FALSE, hi |-> h, lo |-> l]

\* magnitude comparison and exact magnitude arithmetic on <<hi, lo>> pairs
MagLess(a, b) == a.hi < b.hi \/ (a.hi = b.hi /\ a.lo < b.lo)

MagAdd(a, b) ==
    LET l == a.lo + b.lo
    IN  [hi |-> a.hi + b.hi + (l \div Limb), lo |-> l % Limb]

\* requires ~MagLess(a, b)
MagSub(a, b) ==
    IF a.lo >= b.lo
    THEN [hi |-> a.hi - b.hi, lo |-> a.lo - b.lo]
    ELSE [hi |-> a.hi - b.hi - 1, lo |-> a.lo + Limb - b.lo]

\* number of low bits that do not fit in a 53-bit significand
DropBits(m) ==
    IF m.hi < 2^25 THEN 0
    ELSE IF m.hi < 2^26 THEN 1
    ELSE IF m.hi < 2^27 THEN 2
    ELSE IF m.hi < 2^28 THEN 3
    ELSE IF m.hi < 2^29 THEN 4
    ELSE 5

\* round-to-nearest, ties-to-even, of an exact magnitude
RoundMag(m) ==
    LET k    == DropBits(m)
        unit == 2^k
        rem  == m.lo % unit
        down == m.lo - rem
        odd  == (m.lo \div unit) % 2 = 1
        up   == k > 0 /\ (2 * rem > unit \/ (2 * rem = unit /\ odd))
        l    == IF up THEN down + unit ELSE down
    IN  [hi |-> m.hi + (l \div Limb), lo |-> l % Limb]

MkDbl(n, m) ==
    [neg |-> n /\ ~(m.hi = 0 /\ m.lo = 0), hi |-> m.hi, lo |-> m.lo]

\* x + y on doubles
FAdd(x, y) ==
    IF x.neg = y.neg THEN MkDbl(x.neg, RoundMag(MagAdd(x, y)))
    ELSE IF MagLess(x, y) THEN MkDbl(y.neg, RoundMag(MagSub(y, x)))
    ELSE MkDbl(x.neg, RoundMag(MagSub(x, y)))

FNeg(x) == MkDbl(~x.neg, x)

\* x - y on doubles
FSub(x, y) == FAdd(x, FNeg(y))

\* x < y on doubles
FLess(x, y) ==
    IF x.neg /\ ~y.neg THEN TRUE
    ELSE IF ~x.neg /\ y.neg THEN FALSE
    ELSE IF x.neg THEN MagLess(y, x)
    ELSE MagLess(x, y)

FGeq(x, y) == ~FLess(x, y)

FMin(x, y) == IF FLess(y, x) THEN y ELSE x

\* the double literals of the source
F_0_0  == Dbl(0, 0)
F_0_1  == Dbl(26843545, 161061274)
F_0_15 == Dbl(40265318, 107374182)
F_0_2  == Dbl(53687091, 53687092)
F_0_25 == Dbl(67108864, 0)
F_0_3  == Dbl(80530636, 214748364)
F_0_35 == Dbl(93952409, 161061272)
F_0_6  == Dbl(161061273, 161061272)
F_1_0  == Dbl(268435456, 0)

\* the score as the program prints it (format :.2f), in hundredths
Hundredths(x) == (((x.hi \div 256) * 100) + 2^19) \div 2^20

(***************************************************************************)
(* Data model (src/src/data/models.py)                                     *)
(***************************************************************************)
\* Optional[datetime] = None
None == -1

\* mutant: first_used is not tested for None
is_adopted_unguarded(usage, feature, today) ==
    /\ today - usage.first_used >= feature.adoption_threshold_days
    /\ usage.usage_frequency >= feature.usage_frequency_target

\* FeatureUsage.is_adopted(feature), evaluated on day today
is_adopted(usage, feature, today) ==
    IF usage.first_used = None THEN FALSE
    ELSE /\ today - usage.first_used >= feature.adoption_threshold_days
         /\ usage.usage_frequency >= feature.usage_frequency_target

\* the ids of a catalog (the keys of the feature dict, in insertion order)
CatalogIds(cat) == {cat[i].id : i \in 1..Len(cat)}

FeatureById(cat, fid) == cat[CHOOSE i \in 1..Len(cat) : cat[i].id = fid]

\* Customer.get_active_features()
get_active_features(customer) ==
    {fid \in DOMAIN customer.features : customer.features[fid].total_actions > 0}

\* Customer.get_adopted_features(feature_catalog)
get_adopted_features(customer, cat, today) ==
    {fid \in DOMAIN customer.features :
        /\ fid \in CatalogIds(cat)
        /\ is_adopted(customer.features[fid], FeatureById(cat, fid), today)}

\* customer.features.get(feature.id)
NoUsage == [none |-> TRUE]

UsageOf(customer, fid) ==
    IF fid \in DOMAIN customer.features THEN customer.features[fid] ELSE NoUsage

\* `not usage or usage.total_actions == 0`
Unused(usage) == usage = NoUsage \/ usage.total_actions = 0

(***************************************************************************)
(* Analysis engine (src/src/tools/analysis.py)                             *)
(***************************************************************************)
\* AnalysisTool._generate_adoption_reason: the template chosen
generate_adoption_reason(feature, usage, context) ==
    IF context = "core" /\ Unused(usage) THEN "core_never_used"
    ELSE IF context = "core" /\ usage.usage_frequency < feature.usage_frequency_target
        THEN "core_underutilized"
    ELSE IF context = "expansion" /\ Unused(usage) THEN "premium_unused"
    ELSE IF context = "expansion" THEN "premium_early_interest"
    ELSE "aligns_with_usage"

\* mutant: only an entry without actions gets the onboarding session
suggest_action_entryOnly(feature, usage, today) ==
    IF usage # NoUsage /\ usage.total_actions = 0 THEN "onboarding_session"
    ELSE LET days_since_last ==
                 IF usage # NoUsage /\ usage.last_used # None
                 THEN today - usage.last_used ELSE 999
         IN  IF days_since_last > 30 THEN "reengagement_email"
             ELSE "advanced_tips"

\* AnalysisTool._suggest_action: the template chosen
suggest_action(feature, usage, today) ==
    IF Unused(usage) THEN "onboarding_session"
    ELSE LET days_since_last ==
                 IF usage.last_used # None THEN today - usage.last_used ELSE 999
         IN  IF days_since_last > 30 THEN "reengagement_email"
             ELSE "advanced_tips"

Recommendation(feature, prio, rsn, action, impact, conf) ==
    [feature_id       |-> feature.id,
     priority         |-> prio,
     reason           |-> rsn,
     suggested_action |-> [template |-> action, feature_id |-> feature.id],
     expected_impact  |-> impact,
     confidence       |-> conf]

\* list.sort(key=...) : stable, ascending
RECURSIVE InsertByPriority(_, _)
InsertByPriority(sorted, r) ==
    IF sorted = <<>> THEN <<r>>
    ELSE IF sorted[Len(sorted)].priority <= r.priority THEN Append(sorted, r)
    ELSE Append(InsertByPriority(SubSeq(sorted, 1, Len(sorted) - 1), r),
                sorted[Len(sorted)])

RECURSIVE SortByPriority(_)
SortByPriority(seq) ==
    IF seq = <<>> THEN <<>>
    ELSE InsertByPriority(SortByPriority(SubSeq(seq, 1, Len(seq) - 1)), seq[Len(seq)])

\* recommendations[:n]
Take(seq, n) == SubSeq(seq, 1, IF Len(seq) < n THEN Len(seq) ELSE n)

PremiumPlans == {"professional", "enterprise"}

\* mutant: priority 1 for the features in use, 2 for the others
CoreCandidates_activeFirst(customer, cat, today) ==
    LET adopted == get_adopted_features(customer, cat, today)
        active  == get_active_features(customer)
        IsCore(f) == f.category = "core"
        IsGap(f)  == f.id \notin adopted
        Rec(f) ==
            LET usage == UsageOf(customer, f.id)
                prio  == IF f.id \in active THEN 1 ELSE 2
            IN  Recommendation(f, prio,
                    generate_adoption_reason(f, usage, "core"),
                    suggest_action(f, usage, today),
                    "core_engagement",
                    IF prio = 1 THEN 85 ELSE 65)
        gaps == SelectSeq(SelectSeq(cat, IsCore), IsGap)
    IN  [i \in 1..Len(gaps) |-> Rec(gaps[i])]

\* the candidates of the core loop, in catalog order
CoreCandidates(customer, cat, today) ==
    LET adopted == get_adopted_features(customer, cat, today)
        active  == get_active_features(customer)
        IsCore(f) == f.category = "core"
        IsGap(f)  == f.id \notin adopted
        Rec(f) ==
            LET usage == UsageOf(customer, f.id)
                prio  == IF f.id \notin active THEN 1 ELSE 2
            IN  Recommendation(f, prio,
                    generate_adoption_reason(f, usage, "core"),
                    suggest_action(f, usage, today),
                    "core_engagement",
                    IF prio = 1 THEN 85 ELSE 65)
        gaps == SelectSeq(SelectSeq(cat, IsCore), IsGap)
    IN  [i \in 1..Len(gaps) |-> Rec(gaps[i])]

\* mutant: premium gaps are recommended without the foundation of 3 adopted features
PremiumCandidates_noFoundation(customer, cat, today) ==
    LET adopted == get_adopted_features(customer, cat, today)
        IsAvailable(f) == f.is_premium /\ customer.plan_tier \in PremiumPlans
        IsGap(f) == f.id \notin adopted
        Rec(f) ==
            LET usage == UsageOf(customer, f.id)
            IN  Recommendation(f, 3,
                    generate_adoption_reason(f, usage, "expansion"),
                    suggest_action(f, usage, today),
                    "expansion_revenue",
                    60)
        gaps == SelectSeq(SelectSeq(cat, IsAvailable), IsGap)
    IN  [i \in 1..Len(gaps) |-> Rec(gaps[i])]

\* mutant: premium features are available on every plan
PremiumCandidates_anyPlan(customer, cat, today) ==
    LET adopted == get_adopted_features(customer, cat, today)
        IsAvailable(f) == f.is_premium
        has_foundation == Cardinality(adopted) >= 3
        IsGap(f) == f.id \notin adopted /\ has_foundation
        Rec(f) ==
            LET usage == UsageOf(customer, f.id)
            IN  Recommendation(f, 3,
                    generate_adoption_reason(f, usage, "expansion"),
                    suggest_action(f, usage, today),
                    "expansion_revenue",
                    60)
        gaps == SelectSeq(SelectSeq(cat, IsAvailable), IsGap)
    IN  [i \in 1..Len(gaps) |-> Rec(gaps[i])]

\* the candidates of the premium loop, in catalog order
PremiumCandidates(customer, cat, today) ==
    LET adopted == get_adopted_features(customer, cat, today)
        IsAvailable(f) == f.is_premium /\ customer.plan_tier \in PremiumPlans
        has_foundation == Cardinality(adopted) >= 3
        IsGap(f) == f.id \notin adopted /\ has_foundation
        Rec(f) ==
            LET usage == UsageOf(customer, f.id)
            IN  Recommendation(f, 3,
                    generate_adoption_reason(f, usage, "expansion"),
                    suggest_action(f, usage, today),
                    "expansion_revenue",
                    60)
        gaps == SelectSeq(SelectSeq(cat, IsAvailable), IsGap)
    IN  [i \in 1..Len(gaps) |-> Rec(gaps[i])]

\* mutant: the candidates are truncated without being sorted
analyze_feature_adoption_unsorted(customer, cat, today) ==
    Take(CoreCandidates(customer, cat, today)
         \o PremiumCandidates(customer, cat, today), 5)

\* mutant: the candidates are truncated before they are sorted
analyze_feature_adoption_cutFirst(customer, cat, today) ==
    SortByPriority(Take(CoreCandidates(customer, cat, today)
                        \o PremiumCandidates(customer, cat, today), 5))

\* AnalysisTool.analyze_feature_adoption(customer)
analyze_feature_adoption(customer, cat, today) ==
    Take(SortByPriority(CoreCandidates(customer, cat, today)
                        \o PremiumCandidates(customer, cat, today)), 5)

\* len(adopted_core) / len(core_features) < num / den, where the quotient is
\* 0 for an empty list.  The float quotient k/n is below the double 0.5 (0.3)
\* exactly when k/n < 1/2 (3/10) for every n below 2^50.
RateBelow(k, n, num, den) ==
    IF n = 0 THEN 0 < num ELSE k * den < num * n

Signal(k, t, x, y) == [kind |-> k, plan |-> t, a |-> x, b |-> y]

\* mutant: stale_features >= 3
ChurnSignals_staleGeq(customer, cat, today) ==
    LET adopted == get_adopted_features(customer, cat, today)
        days_since_start == today - customer.subscription_start
        IsCore(f) == f.category = "core"
        core_features == SelectSeq(cat, IsCore)
        IsAdoptedCore(f) == f.id \in adopted
        adopted_core == SelectSeq(core_features, IsAdoptedCore)
        k == Len(adopted_core)
        n == Len(core_features)
        Dated == {fid \in DOMAIN customer.features :
                     customer.features[fid].last_used # None}
        recent_usage == Cardinality({fid \in Dated :
                     today - customer.features[fid].last_used <= 30})
        stale_features == Cardinality({fid \in Dated :
                     /\ ~(today - customer.features[fid].last_used <= 30)
                     /\ today - customer.features[fid].last_used > 60})
        IsAdoptedPremium(f) == f.is_premium /\ f.id \in adopted
        premium_features == SelectSeq(cat, IsAdoptedPremium)
    IN  << [fires  |-> RateBelow(k, n, 1, 2),
            msg    |-> Signal("low_core_adoption", "", k, n),
            weight |-> F_0_3],
           [fires  |-> recent_usage < 2,
            msg    |-> Signal("low_recent_activity", "", recent_usage, 0),
            weight |-> F_0_25],
           [fires  |-> stale_features >= 3,
            msg    |-> Signal("stale_features", "", stale_features, 0),
            weight |-> F_0_2],
           [fires  |-> customer.plan_tier \in PremiumPlans /\ Len(premium_features) = 0,
            msg    |-> Signal("plan_value_mismatch", customer.plan_tier, 0, 0),
            weight |-> F_0_15],
           [fires  |-> days_since_start < 90 /\ RateBelow(k, n, 3, 10),
            msg    |-> Signal("new_customer_low_adoption", "", days_since_start, 0),
            weight |-> F_0_1] >>

\* the five signals of assess_churn_risk, in evaluation order, each with its
\* condition, its message and its weight
ChurnSignals(customer, cat, today) ==
    LET adopted == get_adopted_features(customer, cat, today)
        days_since_start == today - customer.subscription_start
        IsCore(f) == f.category = "core"
        core_features == SelectSeq(cat, IsCore)
        IsAdoptedCore(f) == f.id \in adopted
        adopted_core == SelectSeq(core_features, IsAdoptedCore)
        k == Len(adopted_core)
        n == Len(core_features)
        Dated == {fid \in DOMAIN customer.features :
                     customer.features[fid].last_used # None}
        recent_usage == Cardinality({fid \in Dated :
                     today - customer.features[fid].last_used <= 30})
        stale_features == Cardinality({fid \in Dated :
                     /\ ~(today - customer.features[fid].last_used <= 30)
                     /\ today - customer.features[fid].last_used > 60})
        IsAdoptedPremium(f) == f.is_premium /\ f.id \in adopted
        premium_features == SelectSeq(cat, IsAdoptedPremium)
    IN  << [fires  |-> RateBelow(k, n, 1, 2),
            msg    |-> Signal("low_core_adoption", "", k, n),
            weight |-> F_0_3],
           [fires  |-> recent_usage < 2,
            msg    |-> Signal("low_recent_activity", "", recent_usage, 0),
            weight |-> F_0_25],
           [fires  |-> stale_features > 3,
            msg    |-> Signal("stale_features", "", stale_features, 0),
            weight |-> F_0_2],
           [fires  |-> customer.plan_tier \in PremiumPlans /\ Len(premium_features) = 0,
            msg    |-> Signal("plan_value_mismatch", customer.plan_tier, 0, 0),
            weight |-> F_0_15],
           [fires  |-> days_since_start < 90 /\ RateBelow(k, n, 3, 10),
            msg    |-> Signal("new_customer_low_adoption", "", days_since_start, 0),
            weight |-> F_0_1] >>

\* mutant: risk_score -= weight
RECURSIVE Accumulate_subtract(_, _)
Accumulate_subtract(sigs, acc) ==
    IF sigs = <<>> THEN acc
    ELSE Accumulate_subtract(Tail(sigs),
            IF Head(sigs).fires
            THEN [signals    |-> Append(acc.signals, Head(sigs).msg),
                  risk_score |-> FSub(acc.risk_score, Head(sigs).weight)]
            ELSE acc)

\* signals.append(...); risk_score += ...  for the signals that fire
RECURSIVE Accumulate(_, _)
Accumulate(sigs, acc) ==
    IF sigs = <<>> THEN acc
    ELSE Accumulate(Tail(sigs),
            IF Head(sigs).fires
            THEN [signals    |-> Append(acc.signals, Head(sigs).msg),
                  risk_score |-> FAdd(acc.risk_score, Head(sigs).weight)]
            ELSE acc)

NoSignals == Signal("no_significant_risk", "", 0, 0)

\* min(1.0, risk_score)
ClampScore(risk_score) == FMin(F_1_0, risk_score)

\* mutant: the medium threshold is tested first
RiskLevel_mediumFirst(risk_score) ==
    IF FGeq(risk_score, F_0_35)
    THEN [risk_level |-> "medium", urgency_days |-> 30,
          recommended_intervention |-> "quarterly_business_review"]
    ELSE IF FGeq(risk_score, F_0_6)
    THEN [risk_level |-> "high", urgency_days |-> 7,
          recommended_intervention |-> "executive_business_review"]
    ELSE [risk_level |-> "low", urgency_days |-> 90,
          recommended_intervention |-> "regular_check_ins"]

\* mutant: strict comparisons with the thresholds
RiskLevel_strict(risk_score) ==
    IF FLess(F_0_6, risk_score)
    THEN [risk_level |-> "high", urgency_days |-> 7,
          recommended_intervention |-> "executive_business_review"]
    ELSE IF FLess(F_0_35, risk_score)
    THEN [risk_level |-> "medium", urgency_days |-> 30,
          recommended_intervention |-> "quarterly_business_review"]
    ELSE [risk_level |-> "low", urgency_days |-> 90,
          recommended_intervention |-> "regular_check_ins"]

\* mutant: the medium threshold is 0.3
RiskLevel_lowCut(risk_score) ==
    IF FGeq(risk_score, F_0_6)
    THEN [risk_level |-> "high", urgency_days |-> 7,
          recommended_intervention |-> "executive_business_review"]
    ELSE IF FGeq(risk_score, F_0_3)
    THEN [risk_level |-> "medium", urgency_days |-> 30,
          recommended_intervention |-> "quarterly_business_review"]
    ELSE [risk_level |-> "low", urgency_days |-> 90,
          recommended_intervention |-> "regular_check_ins"]

\* the level, urgency and intervention chosen from the accumulated score
RiskLevel(risk_score) ==
    IF FGeq(risk_score, F_0_6)
    THEN [risk_level |-> "high", urgency_days |-> 7,
          recommended_intervention |-> "executive_business_review"]
    ELSE IF FGeq(risk_score, F_0_35)
    THEN [risk_level |-> "medium", urgency_days |-> 30,
          recommended_intervention |-> "quarterly_business_review"]
    ELSE [risk_level |-> "low", urgency_days |-> 90,
          recommended_intervention |-> "regular_check_ins"]

\* mutant: the signals list is returned as accumulated
ChurnRiskAssessment_nosentinel(acc) ==
    LET lvl == RiskLevel(acc.risk_score)
    IN  [risk_level   |-> lvl.risk_level,
         risk_score   |-> ClampScore(acc.risk_score),
         signals      |-> acc.signals,
         recommended_intervention |-> lvl.recommended_intervention,
         urgency_days |-> lvl.urgency_days]

\* mutant: the sentinel is appended to every signals list
ChurnRiskAssessment_alwaysSentinel(acc) ==
    LET lvl == RiskLevel(acc.risk_score)
    IN  [risk_level   |-> lvl.risk_level,
         risk_score   |-> ClampScore(acc.risk_score),
         signals      |-> Append(acc.signals, NoSignals),
         recommended_intervention |-> lvl.recommended_intervention,
         urgency_days |-> lvl.urgency_days]

ChurnRiskAssessment(acc) ==
    LET lvl == RiskLevel(acc.risk_score)
    IN  [risk_level   |-> lvl.risk_level,
         risk_score   |-> ClampScore(acc.risk_score),
         signals      |-> IF acc.signals = <<>> THEN <<NoSignals>> ELSE acc.signals,
         recommended_intervention |-> lvl.recommended_intervention,
         urgency_days |-> lvl.urgency_days]

\* AnalysisTool.assess_churn_risk(customer)
assess_churn_risk(customer, cat, today) ==
    ChurnRiskAssessment(
        Accumulate(ChurnSignals(customer, cat, today),
                   [signals |-> <<>>, risk_score |-> F_0_0]))

(***************************************************************************)
(* Playbook builder (src/src/agent/core.py)                                *)
(***************************************************************************)
\* Optional[str] = None
NoFeatureId == "None"

OnboardingStep(n, ttl, descr, fid, minutes) ==
    [step_number |-> n, title |-> ttl, description |-> descr,
     feature_id |-> fid, estimated_time_minutes |-> minutes]

Text(t) == [template |-> t, feature_id |-> NoFeatureId]

\* DataAccessTool.get_feature(feature_id) is not None
FeatureFound(cat, fid) == fid \in CatalogIds(cat)

\* AdoptionCopilotAgent._generate_onboarding_playbook(customer, recommendations)
generate_onboarding_playbook(recommendations, cat) ==
    IF recommendations = <<>>
    THEN << OnboardingStep(1, "Explore Core Dashboard", Text("dashboard_tour"),
                           "feat_core_dashboard", 15) >>
    ELSE
      LET top_recommendation == recommendations[1]
          step1 ==
            IF FeatureFound(cat, top_recommendation.feature_id)
            THEN << OnboardingStep(1, "Set up",
                        top_recommendation.suggested_action,
                        top_recommendation.feature_id, 30) >>
            ELSE <<>>
          step2 ==
            IF Len(recommendations) > 1
               /\ FeatureFound(cat, recommendations[2].feature_id)
            THEN Append(step1, OnboardingStep(2, "Explore",
                        recommendations[2].suggested_action,
                        recommendations[2].feature_id, 20))
            ELSE step1
      IN  Append(step2, OnboardingStep(Len(step2) + 1, "Schedule Success Review",
                        Text("success_review_call"), NoFeatureId, 30))

(***************************************************************************)
(* Trend memory (src/src/memory/context.py)                                *)
(***************************************************************************)
\* history[-limit:]
LastN(history, limit) ==
    IF limit = 0 \/ limit >= Len(history) THEN history
    ELSE SubSeq(history, Len(history) - limit + 1, Len(history))

\* dict.get(customer_id, [])
GetOrEmpty(dict, customer_id) ==
    IF customer_id \in DOMAIN dict THEN dict[customer_id] ELSE <<>>

\* mutant: the list is re-created on every call
AppendEntry_reset(dict, customer_id, entry) ==
    LET d == IF customer_id \in DOMAIN dict THEN dict
             ELSE dict @@ (customer_id :> <<>>)
    IN  [d EXCEPT ![customer_id] = <<entry>>]

\* mutant: the entry is appended twice
AppendEntry_twice(dict, customer_id, entry) ==
    LET d == IF customer_id \in DOMAIN dict THEN dict
             ELSE dict @@ (customer_id :> <<>>)
    IN  [d EXCEPT ![customer_id] = Append(Append(@, entry), entry)]

\* `if customer_id not in d: d[customer_id] = []` followed by append(entry)
AppendEntry(dict, customer_id, entry) ==
    LET d == IF customer_id \in DOMAIN dict THEN dict
             ELSE dict @@ (customer_id :> <<>>)
    IN  [d EXCEPT ![customer_id] = Append(@, entry)]

\* dict.update(other)
Update(old, other) ==
    [k \in DOMAIN old \cup DOMAIN other |->
        IF k \in DOMAIN other THEN other[k] ELSE old[k]]

\* MemoryStore.store_customer_context(customer_id, context)
PutContext(dict, customer_id, context, today) ==
    LET d == IF customer_id \in DOMAIN dict THEN dict
             ELSE dict @@ (customer_id :> <<>>)
    IN  [d EXCEPT ![customer_id] =
            Update(Update(@, context), [last_updated |-> today])]

\* MemoryStore.get_churn_history(customer_id, limit)
get_churn_history(assessments, customer_id, limit) ==
    LastN(GetOrEmpty(assessments, customer_id), limit)

\* the comparison of the two most recent scores in get_risk_trend
TrendOf(recent, previous) ==
    IF FLess(FAdd(previous, F_0_1), recent) THEN "increasing"
    ELSE IF FLess(recent, FSub(previous, F_0_1)) THEN "decreasing"
    ELSE "stable"

\* MemoryStore.get_risk_trend(customer_id); "None" is Python's None
get_risk_trend(assessments, customer_id) ==
    LET history == get_churn_history(assessments, customer_id, 3)
    IN  IF Len(history) < 2 THEN "None"
        ELSE TrendOf(history[Len(history)].assessment.risk_score,
                     history[Len(history) - 1].assessment.risk_score)

(***************************************************************************)
(* State                                                                   *)
(***************************************************************************)
VARIABLES
    now,                          \* datetime.now(), in days
    catalog,                      \* DataAccessTool._feature_catalog
    customers,                    \* DataAccessTool._customers
    customer_contexts,            \* MemoryStore._customer_contexts
    historical_recommendations,   \* MemoryStore._historical_recommendations
    historical_assessments,       \* MemoryStore._historical_assessments
    call,                         \* the last operation invoked, with its arguments
    ret,                          \* what it returned or raised
    session                       \* the interactive question session (run_demo.py)

vars == <<now, catalog, customers, customer_contexts,
          historical_recommendations, historical_assessments, call, ret,
          session>>

data   == <<now, catalog, customers>>
memory == <<customer_contexts, historical_recommendations, historical_assessments>>

\* the outcome of the operation op: its return value or the exception raised
Returned(op, v) == [op |-> op, status |-> "returned", value |-> v]
Raised(e)       == [status |-> "raised", error |-> e]

(***************************************************************************)
(* Inputs: catalogs, usage records and customers                           *)
(***************************************************************************)
\* the day the data collaborator is constructed
Day0 == 400

\* the longest catalog prefix and the longest stored history explored
MaxFeatures == 6
MaxHist == 3

Feature(fid, cat, prem, days, target) ==
    [id |-> fid, category |-> cat, is_premium |-> prem,
     adoption_threshold_days |-> days, usage_frequency_target |-> target]

\* FEATURE_CATALOG of mock_data.py, in insertion order
FEATURE_CATALOG ==
    << Feature("feat_core_dashboard",      "core",          FALSE,  7, 70),
       Feature("feat_core_reports",        "core",          FALSE, 14, 40),
       Feature("feat_collab_teams",        "collaboration", FALSE, 21, 50),
       Feature("feat_collab_comments",     "collaboration", TRUE,  30, 30),
       Feature("feat_analytics_advanced",  "analytics",     TRUE,  45, 20),
       Feature("feat_analytics_ai",        "analytics",     TRUE,  60, 15),
       Feature("feat_integration_api",     "integration",   FALSE, 30, 30),
       Feature("feat_integration_webhook", "integration",   TRUE,  45, 25),
       Feature("feat_admin_audit",         "admin",         TRUE,  30, 10),
       Feature("feat_admin_sso",           "admin",         TRUE,  60, 10) >>

\* a catalog whose features are all core, the premium ones included
CoreCatalog ==
    [i \in 1..Len(FEATURE_CATALOG) |-> [FEATURE_CATALOG[i] EXCEPT !.category = "core"]]

Prefix(seq, n) == SubSeq(seq, 1, IF n < Len(seq) THEN n ELSE Len(seq))

Catalogs == {Prefix(base, n) : base \in {FEATURE_CATALOG, CoreCatalog}, n \in 0..MaxFeatures}

FeatureUsage(fid, first, last, actions, freq) ==
    [feature_id |-> fid, first_used |-> first, last_used |-> last,
     total_actions |-> actions, usage_frequency |-> freq]

\* usage records as generate_feature_usage builds them on Day0
UsageProfile(fid, profile) ==
    CASE profile = "never"    -> FeatureUsage(fid, None, None, 0, 0)
      [] profile = "champion" -> FeatureUsage(fid, Day0 - 90, Day0 - 2, 120, 80)
      [] profile = "lapsed"   -> FeatureUsage(fid, Day0 - 90, Day0 - 75, 12, 12)
      [] profile = "trial"    -> FeatureUsage(fid, Day0 - 10, Day0 - 5, 9, 50)

Customer(cid, plan, start, usage) ==
    [id |-> cid, plan_tier |-> plan, subscription_start |-> start, features |-> usage]

\* every customer over the features of cat: a profile per feature, or no entry
CustomersOver(cat, profiles, plans, tenures) ==
    { Customer("cust_001", plan, Day0 - tenure,
        [fid \in {x \in CatalogIds(cat) : choice[x] # "absent"} |->
            UsageProfile(fid, choice[fid])]) :
        choice \in [CatalogIds(cat) -> profiles],
        plan \in plans, tenure \in tenures }

Plans == {"basic", "professional", "enterprise"}

KnownId   == "cust_001"
UnknownId == "cust_999"

EmptyMemory ==
    /\ customer_contexts = <<>>
    /\ historical_recommendations = <<>>
    /\ historical_assessments = <<>>

NoCall ==
    /\ call = [op |-> "none"]
    /\ ret = [status |-> "none"]

\* no question session is open
NoSession == session = [pc |-> "NoSession"]

(***************************************************************************)
(* Operations                                                              *)
(***************************************************************************)
\* agent.analysis.assess_churn_risk(customer)
AssessChurnRisk(cid) ==
    /\ cid \in DOMAIN customers
    /\ call' = [op |-> "assess_churn_risk", customer_id |-> cid]
    /\ ret' = Returned("assess_churn_risk",
                     assess_churn_risk(customers[cid], catalog, now))
    /\ UNCHANGED <<session, data, memory>>

\* agent.analysis.analyze_feature_adoption(customer)
AnalyzeFeatureAdoption(cid) ==
    /\ cid \in DOMAIN customers
    /\ call' = [op |-> "analyze_feature_adoption", customer_id |-> cid]
    /\ ret' = Returned("analyze_feature_adoption",
                     analyze_feature_adoption(customers[cid], catalog, now))
    /\ UNCHANGED <<session, data, memory>>

\* agent._generate_onboarding_playbook(customer, recommendations)
GenerateOnboardingPlaybook(recs) ==
    /\ call' = [op |-> "generate_onboarding_playbook", recommendations |-> recs]
    /\ ret' = Returned("generate_onboarding_playbook",
                     generate_onboarding_playbook(recs, catalog))
    /\ UNCHANGED <<session, data, memory>>

\* memory.store_churn_assessment(customer_id, assessment)
StoreChurnAssessment(cid, assessment) ==
    /\ Len(GetOrEmpty(historical_assessments, cid)) < MaxHist
    /\ historical_assessments' =
          AppendEntry(historical_assessments, cid,
                      [timestamp |-> now, assessment |-> assessment])
    /\ call' = [op |-> "store_churn_assessment", customer_id |-> cid,
                assessment |-> assessment]
    /\ ret' = Returned("store_churn_assessment", "None")
    /\ UNCHANGED <<session, data, customer_contexts, historical_recommendations>>

\* memory.get_churn_history(customer_id, limit)
GetChurnHistory(cid, limit) ==
    /\ call' = [op |-> "get_churn_history", customer_id |-> cid, limit |-> limit]
    /\ ret' = Returned("get_churn_history",
                     get_churn_history(historical_assessments, cid, limit))
    /\ UNCHANGED <<session, data, memory>>

\* memory.get_risk_trend(customer_id)
GetRiskTrend(cid) ==
    /\ call' = [op |-> "get_risk_trend", customer_id |-> cid]
    /\ ret' = Returned("get_risk_trend",
                     get_risk_trend(historical_assessments, cid))
    /\ UNCHANGED <<session, data, memory>>

\* the context dictionary analyze_customer stores
ContextOf(customer) == [plan_tier |-> customer.plan_tier]

\* mutant: all the recommendations are carried
CustomerIntelligence_all(customer, recommendations, playbook, churn_risk, today) ==
    [customer_id |-> customer.id,
     adoption_recommendations |-> recommendations,
     onboarding_playbook |-> playbook,
     churn_risk |-> churn_risk,
     generated_at |-> today]

\* CustomerIntelligence(...) as analyze_customer builds it
CustomerIntelligence(customer, recommendations, playbook, churn_risk, today) ==
    [customer_id |-> customer.id,
     adoption_recommendations |-> Take(recommendations, 3),
     onboarding_playbook |-> playbook,
     churn_risk |-> churn_risk,
     generated_at |-> today]

\* mutant: the context is stored before the customer is looked up
AnalyzeCustomer_storeFirst(cid) ==
    /\ call' = [op |-> "analyze_customer", customer_id |-> cid]
    /\ IF cid \notin DOMAIN customers
       THEN /\ ret' = Raised("ValueError")
            /\ customer_contexts' =
                  PutContext(customer_contexts, cid, [plan_tier |-> "None"], now)
            /\ UNCHANGED <<session, data, historical_recommendations, historical_assessments>>
       ELSE LET customer == customers[cid]
                recommendations == analyze_feature_adoption(customer, catalog, now)
                churn_risk == assess_churn_risk(customer, catalog, now)
            IN  /\ Len(GetOrEmpty(historical_recommendations, cid)) < MaxHist
                /\ Len(GetOrEmpty(historical_assessments, cid)) < MaxHist
                /\ customer_contexts' =
                      PutContext(customer_contexts, cid, ContextOf(customer), now)
                /\ historical_recommendations' =
                      AppendEntry(historical_recommendations, cid,
                          [timestamp |-> now, recommendations |-> recommendations])
                /\ historical_assessments' =
                      AppendEntry(historical_assessments, cid,
                          [timestamp |-> now, assessment |-> churn_risk])
                /\ ret' = Returned("analyze_customer", CustomerIntelligence(customer, recommendations,
                              generate_onboarding_playbook(recommendations, catalog),
                              churn_risk, now))
                /\ UNCHANGED <<session, data>>

\* agent.analyze_customer(customer_id)
AnalyzeCustomer(cid) ==
    /\ call' = [op |-> "analyze_customer", customer_id |-> cid]
    /\ IF cid \notin DOMAIN customers
       THEN /\ ret' = Raised("ValueError")
            /\ UNCHANGED <<session, data, memory>>
       ELSE LET customer == customers[cid]
                recommendations == analyze_feature_adoption(customer, catalog, now)
                churn_risk == assess_churn_risk(customer, catalog, now)
            IN  /\ Len(GetOrEmpty(historical_recommendations, cid)) < MaxHist
                /\ Len(GetOrEmpty(historical_assessments, cid)) < MaxHist
                /\ customer_contexts' =
                      PutContext(customer_contexts, cid, ContextOf(customer), now)
                /\ historical_recommendations' =
                      AppendEntry(historical_recommendations, cid,
                          [timestamp |-> now, recommendations |-> recommendations])
                /\ historical_assessments' =
                      AppendEntry(historical_assessments, cid,
                          [timestamp |-> now, assessment |-> churn_risk])
                /\ ret' = Returned("analyze_customer", CustomerIntelligence(customer, recommendations,
                              generate_onboarding_playbook(recommendations, catalog),
                              churn_risk, now))
                /\ UNCHANGED <<session, data>>

(***************************************************************************)
(* The churn assessment as a function of the customer                      *)
(***************************************************************************)
InitChurn ==
    /\ now = Day0
    /\ catalog \in Catalogs
    /\ customers \in {KnownId :> c :
            c \in CustomersOver(catalog, {"never", "champion", "lapsed", "trial"},
                                Plans, {45, 200})}
    /\ EmptyMemory
    /\ NoCall
    /\ NoSession

NextChurn == AssessChurnRisk(KnownId)

SpecChurn == InitChurn /\ [][NextChurn]_vars

(***************************************************************************)
(* The recommendations as a function of the customer                       *)
(***************************************************************************)
InitAdoption ==
    /\ now = Day0
    /\ catalog \in Catalogs
    /\ customers \in {KnownId :> c :
            c \in CustomersOver(catalog,
                    {"never", "champion", "lapsed", "trial", "absent"},
                    Plans, {200})}
    /\ EmptyMemory
    /\ NoCall
    /\ NoSession

NextAdoption == AnalyzeFeatureAdoption(KnownId)

SpecAdoption == InitAdoption /\ [][NextAdoption]_vars

(***************************************************************************)
(* The playbook as a function of the recommendations list                  *)
(***************************************************************************)
\* the longest recommendations list passed to the playbook builder
MaxRecs == 3

\* a customer with the same usage profile on every feature of the catalog
UniformCustomer(plan, profile) ==
    Customer(KnownId, plan, Day0 - 200,
        [fid \in CatalogIds(FEATURE_CATALOG) |-> UsageProfile(fid, profile)])

\* the demo customers of the data collaborator
DemoCustomers ==
    { UniformCustomer("enterprise", "champion"),
      UniformCustomer("professional", "never"),
      UniformCustomer("basic", "lapsed") }

\* recommendations for two catalog features and for one that the catalog
\* does not hold
RecPool ==
    { Recommendation([id |-> fid], 1, "core_never_used", action,
                     "core_engagement", 85) :
        fid \in {"feat_core_dashboard", "feat_core_reports", "feat_retired"},
        action \in {"onboarding_session", "reengagement_email"} }

RECURSIVE ListsUpTo(_, _)
ListsUpTo(S, n) ==
    IF n = 0 THEN {<<>>}
    ELSE LET shorter == ListsUpTo(S, n - 1)
         IN  shorter \cup {Append(l, x) : l \in {m \in shorter : Len(m) = n - 1}, x \in S}

InitPlaybook ==
    /\ now = Day0
    /\ catalog = FEATURE_CATALOG
    /\ customers = (KnownId :> UniformCustomer("professional", "never"))
    /\ EmptyMemory
    /\ NoCall
    /\ NoSession

NextPlaybook == \E recs \in ListsUpTo(RecPool, MaxRecs) : GenerateOnboardingPlaybook(recs)

SpecPlaybook == InitPlaybook /\ [][NextPlaybook]_vars

(***************************************************************************)
(* The agent and its memory                                                *)
(***************************************************************************)
\* the assessment returned when exactly the signals in S fire
AssessmentFor(S) ==
    ChurnRiskAssessment(
        Accumulate([i \in 1..5 |->
                       [fires  |-> i \in S,
                        msg    |-> Signal(<<"low_core_adoption", "low_recent_activity",
                                            "stale_features", "plan_value_mismatch",
                                            "new_customer_low_adoption">>[i],
                                          "", 0, 0),
                        weight |-> <<F_0_3, F_0_25, F_0_2, F_0_15, F_0_1>>[i]]],
                   [signals |-> <<>>, risk_score |-> F_0_0]))

\* assessments recorded directly: scores 0.35 (0.2 + 0.15) and 0.45 (0.25 + 0.2)
AssessmentInputs == {AssessmentFor({3, 4}), AssessmentFor({2, 3})}

CustomerIds == {KnownId, UnknownId}

Init ==
    /\ now = Day0
    /\ catalog = FEATURE_CATALOG
    /\ customers \in {KnownId :> c : c \in DemoCustomers}
    /\ EmptyMemory
    /\ NoCall
    /\ NoSession

Next ==
    \/ \E cid \in CustomerIds : AnalyzeCustomer(cid)
    \/ \E cid \in CustomerIds : \E a \in AssessmentInputs : StoreChurnAssessment(cid, a)
    \/ \E cid \in CustomerIds : \E limit \in {1, 5} : GetChurnHistory(cid, limit)
    \/ \E cid \in CustomerIds : GetRiskTrend(cid)

Spec == Init /\ [][Next]_vars

\* the customer under analysis and the result of the last call
TheCustomer == customers[KnownId]

Assessed == call.op = "assess_churn_risk" /\ ret.status = "returned"

\* The conditions of the five signals as the specification tabulates them,
\* over sets of feature ids: 1 low core adoption, 2 low recent activity,
\* 3 stale features, 4 plan/value mismatch, 5 new customer with low adoption.
SpecFired(customer, cat, today) ==
    LET Adopted(fid) ==
            /\ fid \in DOMAIN customer.features
            /\ customer.features[fid].first_used # None
            /\ today - customer.features[fid].first_used
                   >= FeatureById(cat, fid).adoption_threshold_days
            /\ customer.features[fid].usage_frequency
                   >= FeatureById(cat, fid).usage_frequency_target
        core    == {i \in 1..Len(cat) : cat[i].category = "core"}
        adCore  == {i \in core : Adopted(cat[i].id)}
        adPrem  == {i \in 1..Len(cat) : cat[i].is_premium /\ Adopted(cat[i].id)}
        Age(fid) == today - customer.features[fid].last_used
        used    == {fid \in DOMAIN customer.features :
                       customer.features[fid].last_used # None}
        recent  == {fid \in used : Age(fid) <= 30}
        stale   == {fid \in used : Age(fid) > 60}
        tenure  == today - customer.subscription_start
    IN  {i \in 1..5 :
           \/ i = 1 /\ 2 * Cardinality(adCore) < Cardinality(core)
           \/ i = 1 /\ core = {}
           \/ i = 2 /\ Cardinality(recent) < 2
           \/ i = 3 /\ Cardinality(stale) > 3
           \/ i = 4 /\ customer.plan_tier \in {"professional", "enterprise"}
                    /\ adPrem = {}
           \/ i = 5 /\ tenure < 90
                    /\ (core = {} \/ 10 * Cardinality(adCore) < 3 * Cardinality(core))}

Fired == SpecFired(TheCustomer, catalog, now)

\* the weights of the table, in hundredths
WeightCents == <<30, 25, 20, 15, 10>>

RECURSIVE SumCents(_)
SumCents(S) ==
    IF S = {} THEN 0
    ELSE LET i == CHOOSE x \in S : TRUE IN WeightCents[i] + SumCents(S \ {i})

\* C1: the risk_score returned by assess_churn_risk lies in [0,1], and is
\* exactly 1.0 when all five signals fire.
C1_ScoreInUnitInterval ==
    Assessed =>
        /\ ~ret.value.risk_score.neg
        /\ ~FLess(F_1_0, ret.value.risk_score)
        /\ (Fired = 1..5 => ret.value.risk_score = F_1_0)

C1_Witness ==
    Assessed /\ Fired = 1..5 /\ ret.value.risk_score = F_1_0

\* C3: signals is never empty: it is the single sentinel when no signal
\* condition holds, and holds no sentinel when some condition holds.
C3_SignalsNeverEmpty ==
    Assessed =>
        /\ Len(ret.value.signals) >= 1
        /\ (Fired = {} => ret.value.signals = <<NoSignals>>)
        /\ (Fired # {} => \A i \in 1..Len(ret.value.signals) :
                             ret.value.signals[i].kind # NoSignals.kind)

C3_Witness ==
    Assessed /\ Fired = {} /\ ret.value.signals = <<NoSignals>>

\* C4: score >= 0.6 gives (high, 7); 0.35 <= score < 0.6 gives (medium, 30);
\* score < 0.35 gives (low, 90).
C4_LevelThresholds ==
    Assessed =>
        LET a == ret.value
        IN  /\ FGeq(a.risk_score, F_0_6) =>
                 a.risk_level = "high" /\ a.urgency_days = 7
            /\ FGeq(a.risk_score, F_0_35) /\ FLess(a.risk_score, F_0_6) =>
                 a.risk_level = "medium" /\ a.urgency_days = 30
            /\ FLess(a.risk_score, F_0_35) =>
                 a.risk_level = "low" /\ a.urgency_days = 90
            /\ <<a.risk_level, a.urgency_days>>
                 \in {<<"high", 7>>, <<"medium", 30>>, <<"low", 90>>}

\* a score exactly on the 0.6 threshold
C4_Witness ==
    Assessed /\ ret.value.risk_score = F_0_6 /\ ret.value.risk_level = "high"

\* the weights of the source, in evaluation order
Weights == <<F_0_3, F_0_25, F_0_2, F_0_15, F_0_1>>

\* risk_score after adding the weights of the signals in S in the order
\* order[1], order[2], ...
RECURSIVE SumInOrder(_, _, _, _)
SumInOrder(S, order, i, acc) ==
    IF i > Len(order) THEN acc
    ELSE SumInOrder(S, order, i + 1,
            IF order[i] \in S THEN FAdd(acc, Weights[order[i]]) ELSE acc)

\* for each set of fired signals, the scores of all evaluation orders
OrderTable ==
    {<<S, {SumInOrder(S, order, 1, F_0_0) : order \in Permutations(1..5)}>> :
        S \in SUBSET (1..5)}

ScoresByOrder(S) == (CHOOSE e \in OrderTable : e[1] = S)[2]

MinInt(a, b) == IF a < b THEN a ELSE b

\* C5 as stated: the score is the clamped sum of the weights of the fired
\* signals, whatever the order in which the signals are evaluated.
C5_OrderIndependentSum ==
    Assessed =>
        \A s \in ScoresByOrder(Fired) : ret.value.risk_score = ClampScore(s)

\* C5: the score is the double sum, accumulated in the tabulated order, of
\* the weights of the signals whose condition holds; to two decimals it is
\* min(1, exact sum), and neither the two-decimal score nor the level depends
\* on the evaluation order.
C5_ScoreIsWeightSum ==
    Assessed =>
        /\ ret.value.risk_score = ClampScore(SumInOrder(Fired, <<1, 2, 3, 4, 5>>, 1, F_0_0))
        /\ Hundredths(ret.value.risk_score) = MinInt(100, SumCents(Fired))
        /\ \A s \in ScoresByOrder(Fired) :
              /\ Hundredths(ClampScore(s)) = Hundredths(ret.value.risk_score)
              /\ RiskLevel(s).risk_level = ret.value.risk_level

\* the three signals whose sum depends on the order have fired
C5_Witness ==
    Assessed /\ Fired = {2, 3, 4} /\ Hundredths(ret.value.risk_score) = 60

Analyzed == call.op = "analyze_feature_adoption" /\ ret.status = "returned"

\* every candidate the two loops discover, before sorting and truncation
Candidates ==
    CoreCandidates(TheCustomer, catalog, now)
    \o PremiumCandidates(TheCustomer, catalog, now)

\* C2: analyze_feature_adoption returns at most 5 recommendations, sorted
\* by non-decreasing priority.
C2_AtMostFiveSorted ==
    Analyzed =>
        /\ Len(ret.value) <= 5
        /\ \A i \in 1..Len(ret.value) : \A j \in i..Len(ret.value) :
              ret.value[i].priority <= ret.value[j].priority

\* more than five candidates were discovered, out of priority order
C2_Witness ==
    /\ Analyzed
    /\ Len(Candidates) > 5
    /\ \E i \in 1..Len(Candidates) : \E j \in i..Len(Candidates) :
          Candidates[i].priority > Candidates[j].priority
    /\ Len(ret.value) = 5

PlaybookBuilt == call.op = "generate_onboarding_playbook" /\ ret.status = "returned"

\* C6: the step numbers of the returned playbook are 1, 2, ..., n in list
\* order, whether or not the recommended feature ids resolve in the catalog.
C6_ContiguousStepNumbers ==
    PlaybookBuilt =>
        \A i \in 1..Len(ret.value) : ret.value[i].step_number = i

\* C7: one default step for an empty list; otherwise min(n,2)+1 steps: the
\* set-up of the first recommendation (30 min, its suggested_action), the
\* exploration of the second (20 min) if n >= 2, and the success review
\* (30 min, no feature id) last.
C7_PlaybookShape ==
    PlaybookBuilt =>
        LET recs == call.recommendations
            pb   == ret.value
            n    == Len(recs)
        IN  IF n = 0
            THEN /\ Len(pb) = 1
                 /\ pb[1].step_number = 1
                 /\ pb[1].title = "Explore Core Dashboard"
                 /\ pb[1].estimated_time_minutes = 15
            ELSE /\ Len(pb) = MinInt(n, 2) + 1
                 /\ pb[1].title = "Set up"
                 /\ pb[1].feature_id = recs[1].feature_id
                 /\ pb[1].description = recs[1].suggested_action
                 /\ pb[1].estimated_time_minutes = 30
                 /\ n >= 2 => /\ pb[2].title = "Explore"
                              /\ pb[2].feature_id = recs[2].feature_id
                              /\ pb[2].estimated_time_minutes = 20
                 /\ pb[Len(pb)].title = "Schedule Success Review"
                 /\ pb[Len(pb)].feature_id = NoFeatureId
                 /\ pb[Len(pb)].estimated_time_minutes = 30

\* the stored history of a customer
HistoryOf(cid) == GetOrEmpty(historical_assessments, cid)

\* the trend the claim gives for the last two scores of a history, for a
\* delta that is above 0.1 (gt), below -0.1 (lt) or neither
ClaimedTrend(gt, lt) ==
    IF gt THEN "increasing" ELSE IF lt THEN "decreasing" ELSE "stable"

\* what get_risk_trend returned is what Claimed(recent, previous) gives, and
\* so is its result on every earlier stage of the same append-only history
TrendAsClaimed(Claimed(_, _)) ==
    (call.op = "get_risk_trend" /\ ret.status = "returned") =>
        LET c == call.customer_id
            h == HistoryOf(c)
        IN  IF Len(h) < 2 THEN ret.value = "None"
            ELSE /\ ret.value = Claimed(h[Len(h)].assessment.risk_score,
                                        h[Len(h) - 1].assessment.risk_score)
                 /\ \A k \in 2..(Len(h) - 1) :
                       get_risk_trend(c :> SubSeq(h, 1, k), c)
                          = Claimed(h[k].assessment.risk_score,
                                    h[k - 1].assessment.risk_score)

\* delta taken on the two-decimal scores
TrendByCents(recent, previous) ==
    LET delta == Hundredths(recent) - Hundredths(previous)
    IN  ClaimedTrend(delta > 10, delta < -10)

\* delta taken as the double recent - previous, compared with the double 0.1
TrendByDouble(recent, previous) ==
    LET delta == FSub(recent, previous)
    IN  ClaimedTrend(FLess(F_0_1, delta), FLess(delta, FNeg(F_0_1)))

\* delta taken as the exact difference of the two doubles
TrendByExact(recent, previous) ==
    LET delta == IF MagLess(recent, previous)
                 THEN MkDbl(TRUE, MagSub(previous, recent))
                 ELSE MkDbl(FALSE, MagSub(recent, previous))
    IN  ClaimedTrend(FLess(F_0_1, delta), FLess(delta, FNeg(F_0_1)))

\* C8: risk_trend is unknown with fewer than 2 snapshots; otherwise, with
\* delta the most recent score minus the one before, it is increasing if
\* delta > 0.1, decreasing if delta < -0.1 and stable otherwise, a delta of
\* exactly +0.1 or -0.1 included.  The claim holds of a history if it does
\* for one way of taking delta: in hundredths, as a double, or exactly.
C8_TrendByDelta ==
    \/ TrendAsClaimed(TrendByCents)
    \/ TrendAsClaimed(TrendByDouble)
    \/ TrendAsClaimed(TrendByExact)

\* C9: the churn history is append-only and per customer: a record adds
\* exactly one entry at the end of that customer's history, an analysis
\* extends it by one entry, and no other step changes any history.
C9_AppendOnly ==
    [][\A cid \in CustomerIds :
          LET old == HistoryOf(cid)
              new == GetOrEmpty(historical_assessments', cid)
          IN  IF call'.op = "store_churn_assessment" /\ call'.customer_id = cid
              THEN new = Append(old, [timestamp |-> now,
                                      assessment |-> call'.assessment])
              ELSE IF /\ call'.op = "analyze_customer"
                      /\ call'.customer_id = cid
                      /\ ret'.status = "returned"
              THEN Len(new) = Len(old) + 1 /\ SubSeq(new, 1, Len(old)) = old
              ELSE new = old]_vars

\* a record on a history that already held entries, next to another
\* customer's history
C9_Witness ==
    /\ call.op = "store_churn_assessment"
    /\ Len(HistoryOf(call.customer_id)) >= 2
    /\ \E other \in CustomerIds \ {call.customer_id} : Len(HistoryOf(other)) >= 1

\* C10: analyze_customer of an id unknown to the data collaborator raises,
\* and leaves the memory store unchanged.
C10_UnknownCustomerRaises ==
    [][(call'.op = "analyze_customer" /\ call'.customer_id \notin DOMAIN customers)
          => /\ ret' = Raised("ValueError")
             /\ UNCHANGED memory]_vars

\* the unknown id was analyzed while the memory held snapshots
C10_Witness ==
    /\ call.op = "analyze_customer"
    /\ call.customer_id \notin DOMAIN customers
    /\ ret.status = "raised"
    /\ Len(HistoryOf(KnownId)) >= 1
    /\ KnownId \in DOMAIN customer_contexts

(***************************************************************************)
(* Text: Python str operations on TLA+ strings                              *)
(***************************************************************************)
UpperCase == "ABCDEFGHIJKLMNOPQRSTUVWXYZ"
LowerCase == "abcdefghijklmnopqrstuvwxyz"

\* one character of str.lower()
LowerChar(c) ==
    IF \E i \in 1..26 : SubSeq(UpperCase, i, i) = c
    THEN LET i == CHOOSE j \in 1..26 : SubSeq(UpperCase, j, j) = c
         IN  SubSeq(LowerCase, i, i)
    ELSE c

\* str.lower()
RECURSIVE Lower(_)
Lower(s) ==
    IF Len(s) = 0 THEN ""
    ELSE LowerChar(SubSeq(s, 1, 1)) \o Lower(SubSeq(s, 2, Len(s)))

\* str.strip() for blanks
RECURSIVE Strip(_)
Strip(s) ==
    IF Len(s) = 0 THEN ""
    ELSE IF SubSeq(s, 1, 1) = " " THEN Strip(SubSeq(s, 2, Len(s)))
    ELSE IF SubSeq(s, Len(s), Len(s)) = " " THEN Strip(SubSeq(s, 1, Len(s) - 1))
    ELSE s

\* kw in s
Contains(s, kw) ==
    \E i \in 1..(Len(s) - Len(kw) + 1) : SubSeq(s, i, i + Len(kw) - 1) = kw

\* any(kw in s for kw in keywords)
AnyIn(keywords, s) == \E k \in 1..Len(keywords) : Contains(s, keywords[k])

(***************************************************************************)
(* AdoptionCopilotAgent.answer_question (src/src/agent/core.py)            *)
(***************************************************************************)
\* the route answer_question takes for a question
AnswerRoute(question) ==
    LET question_lower == Lower(question)
    IN  IF Contains(question_lower, "churn") \/ Contains(question_lower, "risk")
        THEN "churn_risk"
        ELSE IF Contains(question_lower, "adopt") \/ Contains(question_lower, "feature")
        THEN "adoption"
        ELSE IF Contains(question_lower, "using") \/ Contains(question_lower, "usage")
        THEN "usage"
        ELSE "summary"

\* the text answer_question returns on its three read-only routes, by the
\* template used and the values formatted into it
AnswerText(route, customer_id, customer, cat, assessments, today) ==
    IF route = "churn_risk"
    THEN LET assessment == assess_churn_risk(customer, cat, today)
         IN  [template |-> "churn_risk",
              risk_level |-> assessment.risk_level,
              score |-> Hundredths(assessment.risk_score),
              trend |-> get_risk_trend(assessments, customer_id),
              signals |-> assessment.signals,
              intervention |-> assessment.recommended_intervention]
    ELSE IF route = "adoption"
    THEN LET recommendations == analyze_feature_adoption(customer, cat, today)
         IN  IF recommendations = <<>>
             THEN [template |-> "no_recommendations"]
             ELSE [template |-> "top_recommendations",
                   items |-> Take(recommendations, 3)]
    ELSE LET adopted == get_adopted_features(customer, cat, today)
             active == get_active_features(customer)
         IN  [template |-> "usage",
              adopted |-> Cardinality(adopted),
              active |-> Cardinality(active),
              ellipsis |-> Cardinality(adopted) > 5]

\* _format_intelligence_summary(intelligence)
format_intelligence_summary(intelligence) ==
    [template |-> "summary",
     risk_level |-> intelligence.churn_risk.risk_level,
     recommendations |-> Len(intelligence.adoption_recommendations),
     steps |-> Len(intelligence.onboarding_playbook),
     generated |-> intelligence.generated_at]

\* agent.answer_question(customer_id, question)
AnswerQuestion(cid, question) ==
    /\ call' = [op |-> "answer_question", customer_id |-> cid, question |-> question]
    /\ IF cid \notin DOMAIN customers
       THEN /\ ret' = Returned("answer_question",
                               [template |-> "not_found", customer_id |-> cid])
            /\ UNCHANGED <<session, data, memory>>
       ELSE IF AnswerRoute(question) # "summary"
       THEN /\ ret' = Returned("answer_question",
                        AnswerText(AnswerRoute(question), cid, customers[cid],
                                   catalog, historical_assessments, now))
            /\ UNCHANGED <<session, data, memory>>
       ELSE LET customer == customers[cid]
                recommendations == analyze_feature_adoption(customer, catalog, now)
                churn_risk == assess_churn_risk(customer, catalog, now)
            IN  /\ Len(GetOrEmpty(historical_recommendations, cid)) < MaxHist
                /\ Len(GetOrEmpty(historical_assessments, cid)) < MaxHist
                /\ customer_contexts' =
                      PutContext(customer_contexts, cid, ContextOf(customer), now)
                /\ historical_recommendations' =
                      AppendEntry(historical_recommendations, cid,
                          [timestamp |-> now, recommendations |-> recommendations])
                /\ historical_assessments' =
                      AppendEntry(historical_assessments, cid,
                          [timestamp |-> now, assessment |-> churn_risk])
                /\ ret' = Returned("answer_question",
                      format_intelligence_summary(
                          CustomerIntelligence(customer, recommendations,
                              generate_onboarding_playbook(recommendations, catalog),
                              churn_risk, now)))
                /\ UNCHANGED <<session, data>>

\* the questions put to answer_question
AgentQuestions ==
    {"What is the churn RISK?", "Which features to adopt next?",
     "How is usage going?", "Tell me about this account"}

NextAnswer ==
    \/ \E cid \in CustomerIds : \E q \in AgentQuestions : AnswerQuestion(cid, q)
    \/ \E a \in AssessmentInputs : StoreChurnAssessment(KnownId, a)

SpecAnswer == Init /\ [][NextAnswer]_vars

\* C11: answer_question for a customer id unknown to the data collaborator
\* fails: the caller gets an error outcome, not an answer value.
C11_UnknownCustomerFails ==
    (call.op = "answer_question" /\ call.customer_id \notin DOMAIN customers)
        => ret.status = "raised"

(***************************************************************************)
(* Question classifiers (src/run_demo.py)                                  *)
(***************************************************************************)
churn_keywords ==
    <<"churn", "risk", "retention", "leaving", "cancel",
      "at risk", "likely to leave", "retention risk">>

rec_keywords ==
    <<"recommend", "should", "next", "best action", "priority",
      "what to do", "suggest", "advice", "focus on">>

onboarding_keywords ==
    <<"onboard", "enablement", "getting started",
      "how to start", "first steps", "setup", "initial">>

adoption_keywords ==
    <<"adopt", "adoption", "using", "features used",
      "what features", "feature usage", "adopted">>

trend_keywords ==
    <<"trend", "recent", "change", "activity", "pattern",
      "increasing", "decreasing", "last", "recently">>

data_keywords ==
    <<"usage data", "metrics", "count", "how many",
      "usage stats", "statistics", "numbers">>

overview_keywords ==
    <<"overview", "summary", "status", "info", "tell me about",
      "what about", "how is", "customer", "account">>

\* mutant: the recommendations keywords are tried before the churn keywords
classify_question_intent_recFirst(question) ==
    LET question_lower == Lower(question)
    IN  IF AnyIn(rec_keywords, question_lower) THEN "recommendations"
        ELSE IF AnyIn(churn_keywords, question_lower) THEN "churn_risk"
        ELSE IF AnyIn(onboarding_keywords, question_lower) THEN "onboarding"
        ELSE IF AnyIn(adoption_keywords, question_lower) THEN "adoption"
        ELSE IF AnyIn(trend_keywords, question_lower) THEN "usage_trends"
        ELSE IF AnyIn(data_keywords, question_lower) THEN "usage_data"
        ELSE IF AnyIn(overview_keywords, question_lower) THEN "overview"
        ELSE "overview"

\* classify_question_intent(question)
classify_question_intent(question) ==
    LET question_lower == Lower(question)
    IN  IF AnyIn(churn_keywords, question_lower) THEN "churn_risk"
        ELSE IF AnyIn(rec_keywords, question_lower) THEN "recommendations"
        ELSE IF AnyIn(onboarding_keywords, question_lower) THEN "onboarding"
        ELSE IF AnyIn(adoption_keywords, question_lower) THEN "adoption"
        ELSE IF AnyIn(trend_keywords, question_lower) THEN "usage_trends"
        ELSE IF AnyIn(data_keywords, question_lower) THEN "usage_data"
        ELSE IF AnyIn(overview_keywords, question_lower) THEN "overview"
        ELSE "overview"

why_keywords ==
    <<"why", "how come", "reason", "cause", "because", "explain",
      "what's wrong", "what's the problem", "how engaged",
      "why is", "why are", "why do", "why does">>

why_synonyms == <<"indicating", "suggesting", "meaning", "implication">>

action_keywords ==
    <<"should", "what to do", "recommend", "next step", "action",
      "pitch", "focus on", "prioritize", "do this week", "suggest",
      "how to", "what should", "what can", "steps", "playbook">>

what_keywords ==
    <<"what is", "what are", "what's", "how many", "how much",
      "show me", "tell me", "list", "status", "current", "is",
      "are", "has", "have", "using", "used">>

\* mutant: the ACTION keywords are tried before the WHY keywords
classify_response_intent_actionFirst(question) ==
    LET question_lower == Lower(question)
    IN  IF AnyIn(action_keywords, question_lower)
        THEN <<"ACTION", "asks_for_actions">>
        ELSE IF AnyIn(why_keywords, question_lower)
        THEN <<"WHY", "asks_why">>
        ELSE IF AnyIn(what_keywords, question_lower)
        THEN <<"WHAT", "asks_for_facts">>
        ELSE IF AnyIn(why_synonyms, question_lower)
        THEN <<"WHY", "interpretive_language">>
        ELSE <<"WHY", "ambiguous">>

\* classify_response_intent(question): the pair (intent, reason)
classify_response_intent(question) ==
    LET question_lower == Lower(question)
    IN  IF AnyIn(why_keywords, question_lower)
        THEN <<"WHY", "asks_why">>
        ELSE IF AnyIn(action_keywords, question_lower)
        THEN <<"ACTION", "asks_for_actions">>
        ELSE IF AnyIn(what_keywords, question_lower)
        THEN <<"WHAT", "asks_for_facts">>
        ELSE IF AnyIn(why_synonyms, question_lower)
        THEN <<"WHY", "interpretive_language">>
        ELSE <<"WHY", "ambiguous">>

\* classify_question_intent applied to the question entered
ClassifyQuestionIntent ==
    /\ call' = [op |-> "classify_question_intent", question |-> session.question]
    /\ ret' = Returned("classify_question_intent",
                     classify_question_intent(session.question))
    /\ UNCHANGED <<session, data, memory>>

\* classify_response_intent applied to the question entered
ClassifyResponseIntent ==
    /\ call' = [op |-> "classify_response_intent", question |-> session.question]
    /\ ret' = Returned("classify_response_intent",
                     classify_response_intent(session.question))
    /\ UNCHANGED <<session, data, memory>>

\* the longest question, in phrases
MaxPhrases == 2

\* phrases the questions are made of: each keyword list is hit by one of
\* them, "account" holds the data keyword "count", "dismiss" the WHAT
\* keyword "is", and "hello" holds no keyword
Phrases ==
    {"Why", "churn", "Should", "setup", "adopted", "recent", "how many",
     "account", "what is", "steps", "meaning", "dismiss", "hello"}

RECURSIVE QuestionsUpTo(_)
QuestionsUpTo(n) ==
    IF n = 1 THEN Phrases
    ELSE LET shorter == QuestionsUpTo(n - 1)
         IN  shorter \cup {q \o " " \o w : q \in shorter, w \in Phrases}

Questions == QuestionsUpTo(MaxPhrases)

InitClassify ==
    /\ now = Day0
    /\ catalog = FEATURE_CATALOG
    /\ customers = (KnownId :> UniformCustomer("professional", "never"))
    /\ EmptyMemory
    /\ NoCall
    /\ session \in {[pc |-> "NoSession", question |-> q] : q \in Questions}

NextClassify ==
    \/ ClassifyQuestionIntent
    \/ ClassifyResponseIntent

SpecClassify == InitClassify /\ [][NextClassify]_vars

\* the categories in the claimed priority order, with their keyword sets
IntentPriority ==
    <<"churn_risk", "recommendations", "onboarding", "adoption",
      "usage_trends", "usage_data", "overview">>

IntentKeywords ==
    <<churn_keywords, rec_keywords, onboarding_keywords, adoption_keywords,
      trend_keywords, data_keywords, overview_keywords>>

\* the categories one of whose keywords occurs in the lower-cased question
MatchingIntents(question) ==
    {i \in 1..7 : \E k \in 1..Len(IntentKeywords[i]) :
                     Contains(Lower(question), IntentKeywords[i][k])}

\* C17: the domain intent is the earliest category, in the order churn_risk,
\* recommendations, onboarding, adoption, usage_trends, usage_data, overview,
\* one of whose keywords the question contains, and overview if none does.
C17_FirstMatchingIntent ==
    (call.op = "classify_question_intent" /\ ret.status = "returned") =>
        LET m == MatchingIntents(call.question)
        IN  IF m = {} THEN ret.value = "overview"
            ELSE \E i \in m : /\ \A j \in m : i <= j
                              /\ ret.value = IntentPriority[i]

\* a question with keywords of several categories, churn_risk not among them
C17_Witness ==
    /\ call.op = "classify_question_intent"
    /\ Cardinality(MatchingIntents(call.question)) >= 2
    /\ 1 \notin MatchingIntents(call.question)
    /\ ret.value = "recommendations"

HasKeyword(keywords, question) ==
    \E k \in 1..Len(keywords) : Contains(Lower(question), keywords[k])

\* C18: the answer shape is one of WHY, WHAT, ACTION: WHY if the question has
\* a WHY keyword, else ACTION if it has an ACTION keyword, else WHAT if it
\* has a WHAT keyword, else WHY.
C18_AnswerShapeOrder ==
    (call.op = "classify_response_intent" /\ ret.status = "returned") =>
        LET q == call.question
            shape == ret.value[1]
        IN  /\ shape \in {"WHY", "WHAT", "ACTION"}
            /\ HasKeyword(why_keywords, q) => shape = "WHY"
            /\ (~HasKeyword(why_keywords, q) /\ HasKeyword(action_keywords, q))
                  => shape = "ACTION"
            /\ (/\ ~HasKeyword(why_keywords, q)
                /\ ~HasKeyword(action_keywords, q)
                /\ HasKeyword(what_keywords, q)) => shape = "WHAT"
            /\ (/\ ~HasKeyword(why_keywords, q)
                /\ ~HasKeyword(action_keywords, q)
                /\ ~HasKeyword(what_keywords, q)) => shape = "WHY"

\* a question with a WHY and an ACTION keyword, classified WHY
C18_Witness ==
    /\ call.op = "classify_response_intent"
    /\ HasKeyword(why_keywords, call.question)
    /\ HasKeyword(action_keywords, call.question)
    /\ ret.value[1] = "WHY"

\* a feature of the catalog is adopted by the customer: used for at least its
\* threshold of days at a frequency that meets its target
AdoptedBy(customer, feature, today) ==
    /\ feature.id \in DOMAIN customer.features
    /\ customer.features[feature.id].first_used # None
    /\ today - customer.features[feature.id].first_used
          >= feature.adoption_threshold_days
    /\ customer.features[feature.id].usage_frequency
          >= feature.usage_frequency_target

CoreGap ==
    \E i \in 1..Len(catalog) :
        catalog[i].category = "core" /\ ~AdoptedBy(TheCustomer, catalog[i], now)

PremiumGap ==
    /\ TheCustomer.plan_tier \in {"professional", "enterprise"}
    /\ \E i \in 1..Len(catalog) :
          catalog[i].is_premium /\ ~AdoptedBy(TheCustomer, catalog[i], now)

AdoptedCount ==
    Cardinality({i \in 1..Len(catalog) : AdoptedBy(TheCustomer, catalog[i], now)})

\* C14: whenever some core feature is not adopted, or the plan is
\* professional or enterprise and some premium feature is not adopted,
\* analyze_feature_adoption returns a non-empty list.
C14_EmptyOnlyWithoutGaps ==
    Analyzed => ((CoreGap \/ PremiumGap) => ret.value # <<>>)

\* C14, amended: the list is empty exactly when no core feature is unadopted
\* and no premium gap is emitted; a premium gap is emitted only for a
\* customer with at least 3 adopted features.
C14_EmptyOnlyWithoutEmittedGaps ==
    Analyzed =>
        (ret.value = <<>> <=> ~(CoreGap \/ (PremiumGap /\ AdoptedCount >= 3)))

\* a premium gap that is not emitted: the list is empty
C14_Witness ==
    Analyzed /\ PremiumGap /\ ~CoreGap /\ AdoptedCount < 3 /\ ret.value = <<>>

\* the kinds of the signals of the returned assessment
SignalKinds == {ret.value.signals[i].kind : i \in 1..Len(ret.value.signals)}

\* subscription started 200 days ago, no usage of any core feature,
\* professional plan, no premium feature adopted
Scenario15 ==
    /\ now - TheCustomer.subscription_start = 200
    /\ TheCustomer.plan_tier = "professional"
    /\ \A i \in 1..Len(catalog) :
          catalog[i].category = "core" =>
              \/ catalog[i].id \notin DOMAIN TheCustomer.features
              \/ TheCustomer.features[catalog[i].id].total_actions = 0
    /\ \A i \in 1..Len(catalog) :
          catalog[i].is_premium => ~AdoptedBy(TheCustomer, catalog[i], now)

Scenario16 ==
    /\ \A i \in 1..Len(catalog) :
          catalog[i].category = "core" => AdoptedBy(TheCustomer, catalog[i], now)
    /\ Cardinality({fid \in DOMAIN TheCustomer.features :
          /\ TheCustomer.features[fid].last_used # None
          /\ now - TheCustomer.features[fid].last_used <= 30}) >= 3
    /\ \E i \in 1..Len(catalog) :
          catalog[i].is_premium /\ AdoptedBy(TheCustomer, catalog[i], now)

\* the categories of the catalog
Categories == {FEATURE_CATALOG[i].category : i \in 1..Len(FEATURE_CATALOG)}

\* customers over the whole catalog of mock_data.py, with one usage profile
\* for the features of each category
CustomersByCategory ==
    { Customer(KnownId, plan, Day0 - tenure,
        [fid \in CatalogIds(FEATURE_CATALOG) |->
            UsageProfile(fid, choice[FeatureById(FEATURE_CATALOG, fid).category])]) :
        choice \in [Categories -> {"never", "champion", "lapsed", "trial"}],
        plan \in Plans, tenure \in {45, 200} }

InitScenario ==
    /\ now = Day0
    /\ catalog = FEATURE_CATALOG
    /\ customers \in {KnownId :> c : c \in CustomersByCategory}
    /\ EmptyMemory
    /\ NoCall
    /\ NoSession

NextScenario == AssessChurnRisk(KnownId)

SpecScenario == InitScenario /\ [][NextScenario]_vars

\* C16: in that scenario, whatever the other usage, the assessment is LOW and
\* its signals list holds the sentinel only.
C16_ScenarioIsLowSentinel ==
    (Assessed /\ Scenario16) =>
        /\ ret.value.risk_level = "low"
        /\ ret.value.signals = <<NoSignals>>

\* C16, amended: in that scenario, for a catalog with a core feature, the
\* assessment is LOW; its signals list holds the sentinel only if at most 3
\* features were last used over 60 days ago, and the stale-features message
\* only otherwise.
C16_ScenarioIsLow ==
    (/\ Assessed /\ Scenario16
     /\ \E i \in 1..Len(catalog) : catalog[i].category = "core") =>
        /\ ret.value.risk_level = "low"
        /\ ret.value.urgency_days = 90
        /\ IF 3 \in Fired
           THEN Len(ret.value.signals) = 1 /\ SignalKinds = {"stale_features"}
           ELSE ret.value.signals = <<NoSignals>>

\* the scenario with four stale features
C16_Witness ==
    /\ Assessed /\ Scenario16
    /\ 3 \in Fired
    /\ ret.value.risk_level = "low"
    /\ SignalKinds = {"stale_features"}

(***************************************************************************)
(* analyze_customer over the customers of the whole catalog                *)
(***************************************************************************)
NextIntelligence == AnalyzeCustomer(KnownId)

SpecIntelligence == InitScenario /\ [][NextIntelligence]_vars

\* C20: the adoption_recommendations of the CustomerIntelligence are the
\* first min(3, n) elements, in order, of the list analyze_feature_adoption
\* returns for the customer (the list this call stored), and the first step
\* of the playbook is about the feature of the first of them.
C20_TopThreeRecommendations ==
    (call.op = "analyze_customer" /\ ret.status = "returned") =>
        LET cid    == call.customer_id
            recs   == analyze_feature_adoption(customers[cid], catalog, now)
            stored == historical_recommendations[cid]
            top    == ret.value.adoption_recommendations
        IN  /\ stored[Len(stored)].recommendations = recs
            /\ Len(top) = MinInt(3, Len(recs))
            /\ \A i \in 1..Len(top) : top[i] = recs[i]
            /\ Len(top) >= 1 =>
                  ret.value.onboarding_playbook[1].feature_id = top[1].feature_id

\* an analysis with more than 3 recommendations
C20_Witness ==
    /\ call.op = "analyze_customer" /\ ret.status = "returned"
    /\ Len(analyze_feature_adoption(customers[call.customer_id], catalog, now)) > 3
    /\ Len(ret.value.adoption_recommendations) = 3
    /\ ret.value.onboarding_playbook[1].feature_id
          = ret.value.adoption_recommendations[1].feature_id

(***************************************************************************)
(* Answer composition (src/run_demo.py)                                    *)
(***************************************************************************)
\* one line of an answer: its section, the template of its text and the
\* value formatted into it
Line(section, template, value) ==
    [section |-> section, template |-> template, value |-> value]

\* the empty line a leading "\n" of an output element gives after the
\* join and the split on "\n"
Blank == Line("", "blank", 0)

\* the section title on a line of its own
Header(section) == Line(section, "header", 0)

\* the number of lines textwrap.TextWrapper(width=80) makes of each text
\* of the engine and the composers; every other text fits on one line
WrapCount(template) ==
    CASE template \in {"why_high", "why_medium", "why_low", "why_low_adoption",
                       "why_healthy_adoption", "why_generic"} -> 2
      [] template \in {"executive_business_review",
                       "quarterly_business_review"} -> 3
      [] template = "regular_check_ins" -> 2
      [] template \in {"onboarding_session", "advanced_tips"} -> 2
      [] template \in {"core_never_used", "core_underutilized",
                       "premium_early_interest"} -> 2
      [] template = "premium_unused" -> 3
      [] OTHER -> 1

\* format_wrapped_text(text, prefix, width=80): the lines of one text
format_wrapped_text(section, template, value) ==
    [i \in 1..WrapCount(template) |-> Line(section, template, value)]

\* for signal in signals: output.extend(format_wrapped_text(signal, ...))
RECURSIVE WrapSignals(_, _)
WrapSignals(section, signals) ==
    IF signals = <<>> THEN <<>>
    ELSE format_wrapped_text(section, Head(signals).kind, Head(signals))
            \o WrapSignals(section, Tail(signals))

\* a confidence that is a risk score (a double), and one that is a literal
\* or a recommendation's constant, held in hundredths
ScoreConfidence(x) == [kind |-> "score", score |-> x]
ConstConfidence(c) == [kind |-> "const", cents |-> c]

\* int(x * 100) for a double 0 <= x <= 1: the exact product in limbs of 14
\* bits, rounded to the nearest double, then truncated
IntTimes100(x) ==
    LET L  == 2^14
        p0 == (x.lo % L) * 100
        p1 == (x.lo \div L) * 100 + (p0 \div L)
        p2 == (x.hi % L) * 100 + (p1 \div L)
        p3 == (x.hi \div L) * 100 + (p2 \div L)
        whole == p3 \div L
        halfulp == IF whole >= 64 THEN 2^9
                   ELSE IF whole >= 32 THEN 2^8
                   ELSE IF whole >= 16 THEN 2^7
                   ELSE IF whole >= 8 THEN 2^6
                   ELSE IF whole >= 4 THEN 2^5
                   ELSE IF whole >= 2 THEN 2^4
                   ELSE IF whole >= 1 THEN 2^3
                   ELSE 2^2
        up == /\ p3 % L = L - 1
              /\ p2 % L = L - 1
              /\ p1 % L = L - 1
              /\ L - (p0 % L) <= halfulp
    IN  IF up THEN whole + 1 ELSE whole

\* confidence_pct = int(confidence * 100)
confidence_pct(confidence) ==
    IF confidence.kind = "score" THEN IntTimes100(confidence.score)
    ELSE confidence.cents

\* the label of the CONFIDENCE line
conf_label(pct) ==
    IF pct >= 70 THEN "High" ELSE IF pct >= 40 THEN "Med" ELSE "Low"

\* the core features of the catalog and those of them the customer adopted
CoreFeatureIds(cat) == {cat[i].id : i \in {j \in 1..Len(cat) : cat[j].category = "core"}}

AdoptedCoreCount(customer, cat, today) ==
    Cardinality(CoreFeatureIds(cat) \cap get_adopted_features(customer, cat, today))

\* the features with last_used within the last 30 days
Recent30d(customer, today) ==
    Cardinality({fid \in DOMAIN customer.features :
        /\ customer.features[fid].last_used # None
        /\ today - customer.features[fid].last_used <= 30})

\* mutant: the ACTION section is written for the high level only
compose_why_response_highOnly(customer, cat, today, question) ==
    LET question_lower == Lower(question)
        assessment == assess_churn_risk(customer, cat, today)
        adopted == get_adopted_features(customer, cat, today)
    IN  IF Contains(question_lower, "churn") \/ Contains(question_lower, "risk")
        THEN LET why_text == IF assessment.risk_level = "high" THEN "why_high"
                             ELSE IF assessment.risk_level = "medium" THEN "why_medium"
                             ELSE "why_low"
             IN  [output |->
                      format_wrapped_text("WHY", why_text, 0)
                   \o <<Blank, Header("WHAT"),
                        Line("WHAT", "churn_risk",
                             [risk_level |-> assessment.risk_level,
                              risk_score |-> assessment.risk_score,
                              signals |-> IF assessment.signals # <<>>
                                          THEN Len(assessment.signals) ELSE None])>>
                   \o (IF assessment.risk_level \in {"high"}
                       THEN <<Blank, Header("ACTION")>>
                            \o format_wrapped_text("ACTION",
                                   assessment.recommended_intervention, 0)
                       ELSE <<>>)
                   \o <<Blank, Header("EVIDENCE")>>
                   \o WrapSignals("EVIDENCE", Take(assessment.signals, 3)),
                  confidence |-> IF FLess(F_0_0, assessment.risk_score)
                                 THEN ScoreConfidence(assessment.risk_score)
                                 ELSE ConstConfidence(70)]
        ELSE IF Contains(question_lower, "adopt") \/ Contains(question_lower, "feature")
        THEN LET recommendations == analyze_feature_adoption(customer, cat, today)
                 core_features == Cardinality(CoreFeatureIds(cat))
                 adopted_core == AdoptedCoreCount(customer, cat, today)
                 \* adopted_core / len(core_features) < 0.5, and 0 without core features
                 low_rate == IF core_features = 0 THEN TRUE
                             ELSE 2 * adopted_core < core_features
             IN  [output |->
                      format_wrapped_text("WHY",
                          IF low_rate THEN "why_low_adoption"
                          ELSE "why_healthy_adoption", 0)
                   \o <<Blank, Header("WHAT"),
                        Line("WHAT", "core_features_adopted",
                             <<adopted_core, core_features>>),
                        Line("WHAT", "total_adopted_features", Cardinality(adopted))>>
                   \o (IF recommendations # <<>>
                       THEN <<Blank, Header("ACTION")>>
                            \o format_wrapped_text("ACTION",
                                   recommendations[1].suggested_action.template,
                                   recommendations[1].suggested_action)
                       ELSE <<>>)
                   \o <<Blank, Header("EVIDENCE"),
                        Line("EVIDENCE", "core_adoption_rate",
                             <<adopted_core, core_features>>),
                        Line("EVIDENCE", "total_adopted_features",
                             Cardinality(adopted))>>,
                  confidence |-> IF recommendations # <<>> THEN ConstConfidence(75)
                                 ELSE ConstConfidence(60)]
        ELSE [output |->
                   format_wrapped_text("WHY", "why_generic", 0)
                \o <<Blank, Header("WHAT"),
                     Line("WHAT", "adopted_features", Cardinality(adopted)),
                     Line("WHAT", "churn_risk_level", assessment.risk_level),
                     Blank, Header("EVIDENCE"),
                     Line("EVIDENCE", "adopted_features_count", Cardinality(adopted)),
                     Line("EVIDENCE", "churn_risk_score", assessment.risk_score)>>,
              confidence |-> ConstConfidence(65)]

\* compose_why_response(agent, customer, question, intent): WHY, then WHAT,
\* then ACTION where there is one, then EVIDENCE
compose_why_response(customer, cat, today, question) ==
    LET question_lower == Lower(question)
        assessment == assess_churn_risk(customer, cat, today)
        adopted == get_adopted_features(customer, cat, today)
    IN  IF Contains(question_lower, "churn") \/ Contains(question_lower, "risk")
        THEN LET why_text == IF assessment.risk_level = "high" THEN "why_high"
                             ELSE IF assessment.risk_level = "medium" THEN "why_medium"
                             ELSE "why_low"
             IN  [output |->
                      format_wrapped_text("WHY", why_text, 0)
                   \o <<Blank, Header("WHAT"),
                        Line("WHAT", "churn_risk",
                             [risk_level |-> assessment.risk_level,
                              risk_score |-> assessment.risk_score,
                              signals |-> IF assessment.signals # <<>>
                                          THEN Len(assessment.signals) ELSE None])>>
                   \o (IF assessment.risk_level \in {"high", "medium"}
                       THEN <<Blank, Header("ACTION")>>
                            \o format_wrapped_text("ACTION",
                                   assessment.recommended_intervention, 0)
                       ELSE <<>>)
                   \o <<Blank, Header("EVIDENCE")>>
                   \o WrapSignals("EVIDENCE", Take(assessment.signals, 3)),
                  confidence |-> IF FLess(F_0_0, assessment.risk_score)
                                 THEN ScoreConfidence(assessment.risk_score)
                                 ELSE ConstConfidence(70)]
        ELSE IF Contains(question_lower, "adopt") \/ Contains(question_lower, "feature")
        THEN LET recommendations == analyze_feature_adoption(customer, cat, today)
                 core_features == Cardinality(CoreFeatureIds(cat))
                 adopted_core == AdoptedCoreCount(customer, cat, today)
                 \* adopted_core / len(core_features) < 0.5, and 0 without core features
                 low_rate == IF core_features = 0 THEN TRUE
                             ELSE 2 * adopted_core < core_features
             IN  [output |->
                      format_wrapped_text("WHY",
                          IF low_rate THEN "why_low_adoption"
                          ELSE "why_healthy_adoption", 0)
                   \o <<Blank, Header("WHAT"),
                        Line("WHAT", "core_features_adopted",
                             <<adopted_core, core_features>>),
                        Line("WHAT", "total_adopted_features", Cardinality(adopted))>>
                   \o (IF recommendations # <<>>
                       THEN <<Blank, Header("ACTION")>>
                            \o format_wrapped_text("ACTION",
                                   recommendations[1].suggested_action.template,
                                   recommendations[1].suggested_action)
                       ELSE <<>>)
                   \o <<Blank, Header("EVIDENCE"),
                        Line("EVIDENCE", "core_adoption_rate",
                             <<adopted_core, core_features>>),
                        Line("EVIDENCE", "total_adopted_features",
                             Cardinality(adopted))>>,
                  confidence |-> IF recommendations # <<>> THEN ConstConfidence(75)
                                 ELSE ConstConfidence(60)]
        ELSE [output |->
                   format_wrapped_text("WHY", "why_generic", 0)
                \o <<Blank, Header("WHAT"),
                     Line("WHAT", "adopted_features", Cardinality(adopted)),
                     Line("WHAT", "churn_risk_level", assessment.risk_level),
                     Blank, Header("EVIDENCE"),
                     Line("EVIDENCE", "adopted_features_count", Cardinality(adopted)),
                     Line("EVIDENCE", "churn_risk_score", assessment.risk_score)>>,
              confidence |-> ConstConfidence(65)]

\* compose_what_response(agent, customer, question, intent): WHAT, then a
\* brief WHY where there is one, then EVIDENCE
compose_what_response(customer, cat, today, question) ==
    LET question_lower == Lower(question)
        assessment == assess_churn_risk(customer, cat, today)
        adopted == Cardinality(get_adopted_features(customer, cat, today))
        active == Cardinality(get_active_features(customer))
        core_features == Cardinality(CoreFeatureIds(cat))
        adopted_core == AdoptedCoreCount(customer, cat, today)
    IN  IF Contains(question_lower, "churn") \/ Contains(question_lower, "risk")
        THEN [output |->
                   <<Header("WHAT"),
                     Line("WHAT", "churn_risk_level", assessment.risk_level),
                     Line("WHAT", "risk_score", assessment.risk_score)>>
                \o (IF assessment.signals # <<>>
                    THEN <<Line("WHAT", "risk_signals", Len(assessment.signals))>>
                    ELSE <<>>)
                \o (IF assessment.risk_level = "high"
                    THEN <<Blank, Line("WHY", "multiple_risk_indicators", 0)>>
                    ELSE <<>>)
                \o <<Blank, Header("EVIDENCE")>>
                \o WrapSignals("EVIDENCE", Take(assessment.signals, 2)),
              confidence |-> ConstConfidence(85)]
        ELSE IF \/ Contains(question_lower, "adopt")
                \/ Contains(question_lower, "feature")
                \/ Contains(question_lower, "using")
        THEN [output |->
                   <<Header("WHAT"),
                     Line("WHAT", "total_adopted_features", adopted),
                     Line("WHAT", "active_features", active),
                     Line("WHAT", "core_features_adopted",
                          <<adopted_core, core_features>>)>>
                \o (IF 2 * adopted_core < core_features
                    THEN <<Blank, Line("WHY", "low_core_adoption_gap", 0)>>
                    ELSE <<>>)
                \o <<Blank, Header("EVIDENCE"),
                     Line("EVIDENCE", "adopted_features_count", adopted),
                     Line("EVIDENCE", "core_adoption_rate",
                          <<adopted_core, core_features>>)>>,
              confidence |-> ConstConfidence(80)]
        ELSE IF Contains(question_lower, "usage") \/ Contains(question_lower, "trend")
        THEN [output |->
                   <<Header("WHAT"),
                     Line("WHAT", "recent_30d", Recent30d(customer, today)),
                     Line("WHAT", "active_features", active),
                     Blank, Header("EVIDENCE"),
                     Line("EVIDENCE", "recent_30d_usage_count",
                          Recent30d(customer, today))>>,
              confidence |-> ConstConfidence(75)]
        ELSE [output |->
                   <<Header("WHAT"),
                     Line("WHAT", "plan_and_mrr", customer.plan_tier),
                     Line("WHAT", "churn_risk_level", assessment.risk_level),
                     Line("WHAT", "core_adoption",
                          <<adopted_core, core_features>>),
                     Blank, Header("EVIDENCE"),
                     Line("EVIDENCE", "mrr", 0),
                     Line("EVIDENCE", "churn_risk_score", assessment.risk_score)>>,
              confidence |-> ConstConfidence(70)]

\* the sentences of a suggested action: suggested_action.split('. ')[:3],
\* each wrapped behind its number
ActionSteps(suggested_action) ==
    IF suggested_action.template = "reengagement_email"
    THEN <<Line("ACTION", "reengagement_email", suggested_action),
           Line("ACTION", "follow_up_call", suggested_action)>>
    ELSE format_wrapped_text("ACTION", suggested_action.template, suggested_action)

\* compose_action_response(agent, customer, question, intent): ACTION, then
\* WHY, then WHAT and EVIDENCE about the feature of the first recommendation
compose_action_response(customer, cat, today, question) ==
    LET recommendations == analyze_feature_adoption(customer, cat, today)
        adopted == Cardinality(get_adopted_features(customer, cat, today))
    IN  IF recommendations = <<>>
        THEN [output |->
                   <<Header("ACTION"),
                     Line("ACTION", "no_specific_actions", 0),
                     Blank, Line("WHY", "within_expected_range", 0),
                     Blank, Header("WHAT"),
                     Line("WHAT", "adopted_features", adopted),
                     Blank, Header("EVIDENCE"),
                     Line("EVIDENCE", "adopted_features_count", adopted)>>,
              confidence |-> ConstConfidence(60)]
        ELSE LET top_rec == recommendations[1]
                 \* customer.features.get(top_rec.feature_id)
                 usage == UsageOf(customer, top_rec.feature_id)
             IN  [output |->
                      <<Header("ACTION")>>
                   \o ActionSteps(top_rec.suggested_action)
                   \o <<Blank, Header("WHY")>>
                   \o format_wrapped_text("WHY", top_rec.reason, top_rec.feature_id)
                   \o <<Blank, Header("WHAT"),
                        IF usage # NoUsage
                        THEN IF usage.total_actions = 0
                             THEN Line("WHAT", "feature_never_used", 0)
                             ELSE Line("WHAT", "feature_underutilized",
                                       usage.usage_frequency)
                        ELSE Line("WHAT", "feature_not_adopted", 0),
                        Blank, Header("EVIDENCE")>>
                   \o (IF usage # NoUsage
                       THEN <<Line("EVIDENCE", "actions", usage.total_actions),
                              Line("EVIDENCE", "frequency", usage.usage_frequency)>>
                       ELSE <<Line("EVIDENCE", "adopted_false", top_rec.feature_id)>>),
                  confidence |-> ConstConfidence(top_rec.confidence)]

(***************************************************************************)
(* The interactive question session: handle_free_form_question             *)
(* (src/run_demo.py)                                                       *)
(***************************************************************************)
\* the questions one session may ask
MaxQuestions == 2

\* `if len(response_lines) > 20`
DisplayLimit == 20

\* response_lines[:20] followed by the truncation mark
Truncate(response_lines) ==
    IF Len(response_lines) > DisplayLimit
    THEN Append(SubSeq(response_lines, 1, DisplayLimit),
                Line("", "truncated", 0))
    ELSE response_lines

\* the composer chosen by the response intent
Compose(response_intent, customer, cat, today, question) ==
    IF response_intent = "WHY"
    THEN compose_why_response(customer, cat, today, question)
    ELSE IF response_intent = "WHAT"
    THEN compose_what_response(customer, cat, today, question)
    ELSE compose_action_response(customer, cat, today, question)

\* the lines printed for an answer: the composed output, the CONFIDENCE
\* line, cut at the display limit
ResponseLines(composed) ==
    LET pct == confidence_pct(composed.confidence)
    IN  Truncate(composed.output
                 \o <<Blank, Line("CONFIDENCE", conf_label(pct), pct)>>)

\* what the session prints for the question at hand
Printed(kind, value) == [kind |-> kind, value |-> value]

\* the words that leave the session
ExitWords == {"back", "exit", "quit"}

\* handle_free_form_question(agent, customer_id) up to the first prompt
StartSession(cid) ==
    /\ session.pc = "NoSession"
    /\ IF cid \notin DOMAIN customers
       THEN session' = [pc |-> "Ended", customer_id |-> cid,
                        question |-> "", question_count |-> 0,
                        response_intent |-> "", reason |-> "",
                        domain_intent |-> "",
                        printed |-> <<Printed("customer_not_found", 0)>>,
                        reached |-> <<>>, log |-> <<>>]
       ELSE session' = [pc |-> "AwaitingQuestion", customer_id |-> cid,
                        question |-> "", question_count |-> 0,
                        response_intent |-> "", reason |-> "",
                        domain_intent |-> "",
                        printed |-> <<>>, reached |-> <<>>, log |-> <<>>]
    /\ UNCHANGED <<call, ret, data, memory>>

\* question = input("Question> ").strip(), the empty-input and the
\* exit-word tests, question_count += 1
ReadQuestion(input) ==
    /\ session.pc = "AwaitingQuestion"
    /\ LET question == Strip(input)
       IN  IF question = ""
           THEN UNCHANGED session
           ELSE IF Lower(question) \in ExitWords
           THEN session' = [session EXCEPT !.pc = "Ended"]
           ELSE /\ session.question_count < MaxQuestions
                /\ session' = [session EXCEPT
                      !.pc = "Classifying",
                      !.question = question,
                      !.question_count = @ + 1,
                      !.response_intent = "", !.reason = "",
                      !.domain_intent = "",
                      !.printed = <<>>,
                      !.reached = <<"Classifying">>]
    /\ UNCHANGED <<call, ret, data, memory>>

\* classify_response_intent, the INTENT line, classify_question_intent
Classify ==
    /\ session.pc = "Classifying"
    /\ LET ri == classify_response_intent(session.question)
       IN  session' = [session EXCEPT
              !.pc = "Composing",
              !.response_intent = ri[1],
              !.reason = ri[2],
              !.domain_intent = classify_question_intent(session.question),
              !.printed = Append(@, Printed("intent", ri)),
              !.reached = Append(@, "Composing")]
    /\ UNCHANGED <<call, ret, data, memory>>

\* the composer, the confidence line and the print of the response.  No
\* lookup of the composers or of the engine raises: every access to the
\* usage map and to the catalog is dict.get or guarded by membership.
ComposeAndDisplay ==
    /\ session.pc = "Composing"
    /\ LET composed == Compose(session.response_intent,
                               customers[session.customer_id], catalog, now,
                               session.question)
       IN  session' = [session EXCEPT
              !.pc = "Displayed",
              !.printed = Append(@, Printed("answer", ResponseLines(composed))),
              !.reached = Append(@, "Displayed")]
    /\ UNCHANGED <<call, ret, data, memory>>

\* the result_key of the log row written after the answer
IntentKey(composed_pct, response_intent) ==
    [key |-> "intent", intent |-> response_intent, n |-> composed_pct]

\* log_interaction(...) inside the inner try, after the print: written is
\* whether the append to the log file succeeds.  A failure after the answer
\* is caught by `except Exception`, which prints the error report and calls
\* log_interaction again; a failure of that call leaves the handler and is
\* caught by the outer `except Exception`, which prints it and prompts again.
LogInteraction(written) ==
    /\ session.pc \in {"Displayed", "Errored"}
    /\ IF session.pc = "Displayed"
       THEN IF written
            THEN LET answer == session.printed[Len(session.printed)].value
                     pct == answer[Len(answer)].value
                 IN  session' = [session EXCEPT
                        !.pc = "AwaitingQuestion",
                        !.log = Append(@, IntentKey(pct, session.response_intent))]
            ELSE session' = [session EXCEPT
                    !.pc = "Errored",
                    !.printed = Append(@, Printed("unable_to_process", 0)),
                    !.reached = Append(@, "Errored")]
       ELSE IF written
            THEN session' = [session EXCEPT
                    !.pc = "AwaitingQuestion",
                    !.log = Append(@, [key |-> "error", intent |-> "",
                                       n |-> session.question_count])]
            ELSE session' = [session EXCEPT
                    !.pc = "AwaitingQuestion",
                    !.printed = Append(@, Printed("error", 0))]
    /\ UNCHANGED <<call, ret, data, memory>>

\* KeyboardInterrupt anywhere in the loop: break
Interrupt ==
    /\ session.pc \in {"AwaitingQuestion", "Classifying", "Composing",
                       "Displayed", "Errored"}
    /\ session' = [session EXCEPT !.pc = "Ended"]
    /\ UNCHANGED <<call, ret, data, memory>>

\* a professional customer without core usage whose first two other
\* features were used 5 days ago
MediumCustomer ==
    Customer(KnownId, "professional", Day0 - 200,
        [fid \in CatalogIds(FEATURE_CATALOG) |->
            UsageProfile(fid,
                IF fid \in {"feat_collab_teams", "feat_collab_comments"}
                THEN "trial" ELSE "never")])

\* a customer whose usage map has no entry for the first core feature
SparseCustomer ==
    Customer(KnownId, "basic", Day0 - 200,
        [fid \in CatalogIds(FEATURE_CATALOG) \ {"feat_core_dashboard"} |->
            UsageProfile(fid, "champion")])

\* a customer whose usage map has an entry for a feature the catalog
\* does not hold
OrphanCustomer ==
    Customer(KnownId, "basic", Day0 - 200,
        [fid \in CatalogIds(FEATURE_CATALOG) \cup {"feat_retired"} |->
            UsageProfile(fid, "champion")])

SessionCustomers ==
    DemoCustomers \cup {MediumCustomer, SparseCustomer, OrphanCustomer}

\* what is typed at the prompt
SessionInputs ==
    {"", "   ", " Back ", "quit",
     "Why is this customer at risk?", " What should we do next? ",
     "What is the usage?", "hello"}

InitSession ==
    /\ now = Day0
    /\ catalog = FEATURE_CATALOG
    /\ customers \in {KnownId :> c : c \in SessionCustomers}
    /\ EmptyMemory
    /\ NoCall
    /\ NoSession

NextSession ==
    \/ \E cid \in CustomerIds : StartSession(cid)
    \/ \E input \in SessionInputs : ReadQuestion(input)
    \/ Classify
    \/ ComposeAndDisplay
    \/ \E written \in BOOLEAN : LogInteraction(written)
    \/ Interrupt

SpecSession == InitSession /\ [][NextSession]_vars

\* the customer of the session, their assessment, and the answer printed
\* for the question at hand
SessionCustomer == customers[session.customer_id]

SessionAssessment == assess_churn_risk(SessionCustomer, catalog, now)

Answered == session.pc = "Displayed"

AnswerLines == session.printed[Len(session.printed)].value

AnswerSections == {AnswerLines[i].section : i \in 1..Len(AnswerLines)}

\* C12: every question that is neither empty nor an exit word goes through
\* Classifying and Composing to exactly one of Displayed, Refused and
\* Errored before the session awaits the next question.
C12_ExactlyOneOutcome ==
    (session.pc = "AwaitingQuestion" /\ session.question_count > 0) =>
        \E outcome \in {"Displayed", "Refused", "Errored"} :
            session.reached = <<"Classifying", "Composing", outcome>>

\* C13: a question whose answer is composed about a feature that has no
\* entry in the customer's usage map gets the Refused response, not an
\* ordinary answer.
C13_DanglingReferenceRefused ==
    LET recommendations == analyze_feature_adoption(SessionCustomer, catalog, now)
    IN  (/\ session.pc \in {"Displayed", "Errored"}
         /\ session.response_intent = "ACTION"
         /\ recommendations # <<>>
         /\ recommendations[1].feature_id \notin DOMAIN SessionCustomer.features)
            => /\ "Refused" \in {session.reached[i] : i \in 1..Len(session.reached)}
               /\ \A i \in 1..Len(session.printed) :
                     session.printed[i].kind # "answer"

\* C19: "Why is this customer at risk?" is classified churn_risk and WHY;
\* its answer has a WHY section and a WHAT section with the risk score; it
\* has an ACTION section exactly when the assessed level is high or medium,
\* so it has one for a HIGH customer.
C19_WhyAtRisk ==
    (Answered /\ session.question = "Why is this customer at risk?") =>
        /\ session.domain_intent = "churn_risk"
        /\ session.response_intent = "WHY"
        /\ "WHY" \in AnswerSections
        /\ \E i \in 1..Len(AnswerLines) :
              /\ AnswerLines[i].section = "WHAT"
              /\ AnswerLines[i].template = "churn_risk"
              /\ AnswerLines[i].value.risk_score = SessionAssessment.risk_score
        /\ "ACTION" \in AnswerSections
              <=> SessionAssessment.risk_level \in {"high", "medium"}
        /\ SessionAssessment.risk_level = "high" => "ACTION" \in AnswerSections

\* the question answered for a HIGH customer, with its ACTION section
C19_Witness ==
    /\ Answered
    /\ session.question = "Why is this customer at risk?"
    /\ SessionAssessment.risk_level = "high"
    /\ {"WHY", "WHAT", "ACTION"} \subseteq AnswerSections

(***************************************************************************)
(* The analysis engine over sparse usage maps and every catalog            *)
(***************************************************************************)
InitEngine ==
    /\ now = Day0
    /\ catalog \in Catalogs
    /\ customers \in {KnownId :> c :
            c \in CustomersOver(catalog,
                    {"never", "champion", "lapsed", "absent"},
                    {"basic", "professional"}, {200})}
    /\ EmptyMemory
    /\ NoCall
    /\ NoSession

NextEngine ==
    \/ AnalyzeFeatureAdoption(KnownId)
    \/ AssessChurnRisk(KnownId)

SpecEngine == InitEngine /\ [][NextEngine]_vars

\* the customer has an entry with total_actions > 0 for the feature
ActiveIn(customer, feature) ==
    /\ feature.id \in DOMAIN customer.features
    /\ customer.features[feature.id].total_actions > 0

\* the priority and the confidence (in hundredths) claimed for a core gap
ClaimedCorePriority(feature) == IF ActiveIn(TheCustomer, feature) THEN 2 ELSE 1

ClaimedCoreConfidence(feature) == IF ActiveIn(TheCustomer, feature) THEN 65 ELSE 85

\* the core features of the catalog the customer has not adopted
CoreGaps ==
    {i \in 1..Len(catalog) :
        catalog[i].category = "core" /\ ~AdoptedBy(TheCustomer, catalog[i], now)}

\* C21: every core catalog feature that is not adopted has a candidate
\* recommendation, no adopted core feature has one; the candidate has
\* priority 1 and confidence 0.85 when the feature is not active, priority 2
\* and confidence 0.65 when it is active.  The returned list holds such
\* recommendations only, and all of them when there are at most 5 candidates.
C21_CoreGapCandidates ==
    Analyzed =>
        LET core == CoreCandidates(TheCustomer, catalog, now)
        IN  /\ Len(core) = Cardinality(CoreGaps)
            /\ \A i \in CoreGaps :
                  \E k \in 1..Len(core) :
                      /\ core[k].feature_id = catalog[i].id
                      /\ core[k].priority = ClaimedCorePriority(catalog[i])
                      /\ core[k].confidence = ClaimedCoreConfidence(catalog[i])
            /\ \A k \in 1..Len(ret.value) :
                  ret.value[k].priority \in {1, 2} =>
                      \E i \in CoreGaps :
                          /\ ret.value[k].feature_id = catalog[i].id
                          /\ ret.value[k].priority = ClaimedCorePriority(catalog[i])
                          /\ ret.value[k].confidence = ClaimedCoreConfidence(catalog[i])
            /\ Len(Candidates) <= 5 =>
                  \A i \in CoreGaps : \E k \in 1..Len(ret.value) :
                      /\ ret.value[k].feature_id = catalog[i].id
                      /\ ret.value[k].priority = ClaimedCorePriority(catalog[i])

\* a core gap in use, a core gap not in use and an adopted core feature
C21_Witness ==
    /\ Analyzed
    /\ \E i \in CoreGaps : ActiveIn(TheCustomer, catalog[i])
    /\ \E i \in CoreGaps : ~ActiveIn(TheCustomer, catalog[i])
    /\ \E i \in 1..Len(catalog) :
          catalog[i].category = "core" /\ AdoptedBy(TheCustomer, catalog[i], now)
    /\ \E k \in 1..Len(ret.value) : ret.value[k].priority = 2

\* C22: a priority-3 recommendation is returned only for a premium feature
\* that is not adopted, to a customer on the professional or enterprise plan
\* who has adopted at least 3 features; a basic-plan customer and a customer
\* with fewer than 3 adopted features get none.
C22_PremiumOnlyWithFoundation ==
    Analyzed =>
        /\ \A k \in 1..Len(ret.value) :
              ret.value[k].priority = 3 =>
                  /\ \E i \in 1..Len(catalog) :
                        /\ catalog[i].id = ret.value[k].feature_id
                        /\ catalog[i].is_premium
                        /\ ~AdoptedBy(TheCustomer, catalog[i], now)
                  /\ TheCustomer.plan_tier \in {"professional", "enterprise"}
                  /\ AdoptedCount >= 3
        /\ (TheCustomer.plan_tier = "basic" \/ AdoptedCount < 3) =>
              \A k \in 1..Len(ret.value) : ret.value[k].priority # 3

\* a priority-3 recommendation is returned
C22_Witness ==
    /\ Analyzed
    /\ AdoptedCount >= 3
    /\ \E k \in 1..Len(ret.value) : ret.value[k].priority = 3

\* the place of a feature in the catalog
CatalogIndex(fid) == CHOOSE i \in 1..Len(catalog) : catalog[i].id = fid

\* the features of a list of recommendations follow the catalog order
InCatalogOrder(recs) ==
    \A k \in 1..Len(recs) : \A l \in (k + 1)..Len(recs) :
        CatalogIndex(recs[k].feature_id) < CatalogIndex(recs[l].feature_id)

\* the number of candidates a stable ascending sort puts before candidate j
StableRank(cand, j) ==
    Cardinality({k \in 1..Len(cand) :
        \/ cand[k].priority < cand[j].priority
        \/ (cand[k].priority = cand[j].priority /\ k < j)})

\* C23: the returned list is the first 5 of the candidates (core candidates
\* in catalog order, then premium candidates in catalog order) after a
\* stable sort by ascending priority: equal priorities keep discovery order
\* and no omitted candidate has a smaller priority number than a returned one.
C23_StableTopFive ==
    Analyzed =>
        LET core    == CoreCandidates(TheCustomer, catalog, now)
            premium == PremiumCandidates(TheCustomer, catalog, now)
            cand    == core \o premium
        IN  /\ InCatalogOrder(core)
            /\ InCatalogOrder(premium)
            /\ Len(ret.value) = MinInt(5, Len(cand))
            /\ \A j \in 1..Len(cand) :
                  LET rank == StableRank(cand, j)
                  IN  IF rank < 5
                      THEN ret.value[rank + 1] = cand[j]
                      ELSE \A k \in 1..Len(ret.value) :
                              ret.value[k].priority <= cand[j].priority

\* more than 5 candidates, discovered out of priority order, and a candidate
\* is omitted that has the priority of a returned one
C23_Witness ==
    /\ Analyzed
    /\ Len(ret.value) = 5
    /\ LET cand == Candidates
       IN  /\ Len(cand) > 5
           /\ \E i \in 1..Len(cand) : \E j \in i..Len(cand) :
                 cand[i].priority > cand[j].priority
           /\ \E j \in 1..Len(cand) :
                 /\ StableRank(cand, j) >= 5
                 /\ cand[j].priority = ret.value[5].priority

\* C30: no feature_id occurs twice in the list analyze_feature_adoption
\* returns, also when a core feature of the catalog is premium.
C30_NoDuplicateFeature ==
    Analyzed =>
        \A k \in 1..Len(ret.value) : \A l \in (k + 1)..Len(ret.value) :
            ret.value[k].feature_id # ret.value[l].feature_id

(***************************************************************************)
(* FeatureUsage.is_adopted over arbitrary usage records                    *)
(***************************************************************************)
\* usage.is_adopted(feature) for the usage entry of a customer; the call
\* keeps the record it was evaluated on
IsAdopted(cid, fid) ==
    /\ cid \in DOMAIN customers
    /\ fid \in DOMAIN customers[cid].features
    /\ fid \in CatalogIds(catalog)
    /\ call' = [op |-> "is_adopted", customer_id |-> cid, feature_id |-> fid,
                self |-> customers[cid].features[fid]]
    /\ ret' = Returned("is_adopted",
                     is_adopted(customers[cid].features[fid],
                                FeatureById(catalog, fid), now))
    /\ UNCHANGED <<session, data, memory>>

\* usage records with every combination of set and unset dates, counters
\* and frequencies, for one feature of the catalog
UsageRecords(fid) ==
    {FeatureUsage(fid, first, last, actions, freq) :
        first \in {None, Day0 - 90, Day0 - 30, Day0 - 7, Day0 - 6},
        last \in {None, Day0 - 2, Day0 - 75},
        actions \in {0, 12},
        freq \in {0, 10, 50, 70}}

InitUsage ==
    /\ now = Day0
    /\ catalog = FEATURE_CATALOG
    /\ customers \in UNION {
          {KnownId :> Customer(KnownId, "basic", Day0 - 200, (fid :> usage)) :
              usage \in UsageRecords(fid)} :
          fid \in CatalogIds(FEATURE_CATALOG)}
    /\ EmptyMemory
    /\ NoCall
    /\ NoSession

NextUsage == \E fid \in CatalogIds(catalog) : IsAdopted(KnownId, fid)

SpecUsage == InitUsage /\ [][NextUsage]_vars

IsAdoptedReturned == call.op = "is_adopted" /\ ret.status = "returned"

\* C24: is_adopted(feature) is true iff first_used is set, the days since
\* first_used are at least the feature's adoption_threshold_days and
\* usage_frequency is at least its usage_frequency_target; it is false
\* whenever first_used is unset, and the record is as it was before the call.
C24_IsAdoptedRule ==
    IsAdoptedReturned =>
        LET usage   == customers[call.customer_id].features[call.feature_id]
            feature == FeatureById(catalog, call.feature_id)
        IN  /\ ret.value <=>
                  /\ usage.first_used # None
                  /\ now - usage.first_used >= feature.adoption_threshold_days
                  /\ usage.usage_frequency >= feature.usage_frequency_target
            /\ usage.first_used = None => ret.value = FALSE
            /\ usage = call.self

\* first_used is unset on a record that has actions, a last_used date and a
\* frequency above the target
C24_Witness ==
    /\ IsAdoptedReturned
    /\ LET usage   == customers[call.customer_id].features[call.feature_id]
           feature == FeatureById(catalog, call.feature_id)
       IN  /\ usage.first_used = None
           /\ usage.last_used # None
           /\ usage.total_actions > 0
           /\ usage.usage_frequency >= feature.usage_frequency_target
           /\ ret.value = FALSE

\* the catalog features without an entry in the usage map of the customer
MissingEntries(customer) == CatalogIds(catalog) \ DOMAIN customer.features

\* the customer with a never-used entry for each of them
WithNeverUsed(customer) ==
    [customer EXCEPT !.features =
        [fid \in DOMAIN customer.features \cup MissingEntries(customer) |->
            IF fid \in DOMAIN customer.features
            THEN customer.features[fid]
            ELSE UsageProfile(fid, "never")]]

\* C25: a catalog feature without usage entry is treated as never used: it
\* is neither adopted nor active, both operations return what they return
\* for the customer with a never-used entry (so it counts neither as recent
\* nor as stale), and a core feature without entry is a priority-1 candidate
\* with the onboarding session, returned unless 5 priority-1 candidates
\* precede it; neither operation fails.
C25_SparseUsageTolerated ==
    LET missing == MissingEntries(TheCustomer)
        filled  == WithNeverUsed(TheCustomer)
    IN  /\ call.op \in {"analyze_feature_adoption", "assess_churn_risk"} =>
              /\ ret.status = "returned"
              /\ missing \cap get_adopted_features(TheCustomer, catalog, now) = {}
              /\ missing \cap get_active_features(TheCustomer) = {}
        /\ Assessed => ret.value = assess_churn_risk(filled, catalog, now)
        /\ Analyzed =>
              LET core == CoreCandidates(TheCustomer, catalog, now)
                  OnboardingFor(r, fid) ==
                      /\ r.feature_id = fid
                      /\ r.priority = 1
                      /\ r.suggested_action.template = "onboarding_session"
              IN  /\ ret.value = analyze_feature_adoption(filled, catalog, now)
                  /\ \A i \in 1..Len(catalog) :
                        (catalog[i].category = "core" /\ catalog[i].id \in missing) =>
                            /\ \E k \in 1..Len(core) :
                                  OnboardingFor(core[k], catalog[i].id)
                            /\ Cardinality({k \in 1..Len(core) :
                                      core[k].priority = 1}) <= 5 =>
                                  \E k \in 1..Len(ret.value) :
                                      OnboardingFor(ret.value[k], catalog[i].id)

\* a core feature without usage entry is recommended with priority 1
C25_Witness ==
    /\ Analyzed
    /\ \E i \in 1..Len(catalog) :
          /\ catalog[i].category = "core"
          /\ catalog[i].id \in MissingEntries(TheCustomer)
          /\ \E k \in 1..Len(ret.value) :
                /\ ret.value[k].feature_id = catalog[i].id
                /\ ret.value[k].priority = 1
                /\ ret.value[k].suggested_action.template = "onboarding_session"
    /\ DOMAIN TheCustomer.features # {}

\* C26: answering a question leaves the stored churn assessments, and so
\* the risk trend, of every customer as they were before the call.
C26_AnswerReadsOnly ==
    [][call'.op = "answer_question" =>
          /\ historical_assessments' = historical_assessments
          /\ \A cid \in CustomerIds :
                get_risk_trend(historical_assessments', cid)
                    = get_risk_trend(historical_assessments, cid)]_vars

\* C27: a successful analyze_customer(c) appends exactly one churn snapshot
\* and one recommendation snapshot to the history of c, so that both
\* histories of c are as long as the number of analyses of c; with the data
\* and the clock unchanged, the risk trend of c is unknown after the first
\* analysis and stable after every later one.
C27_OneSnapshotPerAnalysis ==
    [][(call'.op = "analyze_customer" /\ ret'.status = "returned") =>
          LET c == call'.customer_id
              before == GetOrEmpty(historical_assessments, c)
              after  == GetOrEmpty(historical_assessments', c)
          IN  /\ Len(after) = Len(before) + 1
              /\ SubSeq(after, 1, Len(before)) = before
              /\ after[Len(after)].assessment = ret'.value.churn_risk
              /\ Len(GetOrEmpty(historical_recommendations', c))
                    = Len(GetOrEmpty(historical_recommendations, c)) + 1
              /\ Len(GetOrEmpty(historical_recommendations', c)) = Len(after)
              /\ get_risk_trend(historical_assessments', c)
                    = IF Len(after) = 1 THEN "None" ELSE "stable"]_vars

\* the third analysis of the customer: three snapshots, trend stable
C27_Witness ==
    /\ call.op = "analyze_customer" /\ ret.status = "returned"
    /\ Len(historical_assessments[KnownId]) = 3
    /\ Len(historical_recommendations[KnownId]) = 3
    /\ get_risk_trend(historical_assessments, KnownId) = "stable"

(***************************************************************************)
(* Interleaved store_churn_assessment calls                                *)
(***************************************************************************)
\* number of callers of store_churn_assessment that share one MemoryStore
MaxWriters == 2

Writers == 1..MaxWriters

\* a caller that has not called yet
IdleWriter == [pc |-> "idle"]

\* the calls in flight: `call.writers[w]` is the position of caller w in
\* store_churn_assessment, `call.serialised` tells whether the callers run
\* the call one at a time per customer key
InFlight(w) == call.writers[w].pc \in {"check", "create", "lookup", "append"}

\* mutant: the exclusion only covers callers that already hold the list
MayEnter_appendOnly(w, cid) ==
    call.serialised =>
        \A v \in Writers \ {w} :
            ~(call.writers[v].pc = "append" /\ call.writers[v].customer_id = cid)

\* one writer at a time per customer key, when the callers are serialised
MayEnter(w, cid) ==
    call.serialised =>
        \A v \in Writers \ {w} :
            ~(InFlight(v) /\ call.writers[v].customer_id = cid)

\* caller w enters store_churn_assessment(customer_id, assessment)
BeginStore(w, cid, assessment) ==
    /\ call.writers[w].pc = "idle"
    /\ MayEnter(w, cid)
    /\ call' = [call EXCEPT !.writers[w] =
                   [pc |-> "check", customer_id |-> cid,
                    assessment |-> assessment, attached |-> FALSE]]
    /\ UNCHANGED <<ret, session, data, memory>>

\* `if customer_id not in self._historical_assessments:`
CheckAbsent(w) ==
    /\ call.writers[w].pc = "check"
    /\ call' = [call EXCEPT !.writers[w].pc =
                   IF call.writers[w].customer_id \in DOMAIN historical_assessments
                   THEN "lookup" ELSE "create"]
    /\ UNCHANGED <<ret, session, data, memory>>

\* `self._historical_assessments[customer_id] = []`: the key is bound to a
\* new list, and a list some other caller has looked up under the key is no
\* longer the one in the dictionary
CreateList(w) ==
    /\ call.writers[w].pc = "create"
    /\ LET cid == call.writers[w].customer_id
       IN  /\ historical_assessments' =
                 [k \in DOMAIN historical_assessments \cup {cid} |->
                     IF k = cid THEN <<>> ELSE historical_assessments[k]]
           /\ call' = [call EXCEPT !.writers =
                         [v \in Writers |->
                            IF v = w THEN [call.writers[v] EXCEPT !.pc = "lookup"]
                            ELSE IF /\ call.writers[v].pc = "append"
                                    /\ call.writers[v].customer_id = cid
                                 THEN [call.writers[v] EXCEPT !.attached = FALSE]
                                 ELSE call.writers[v]]]
    /\ UNCHANGED <<ret, session, data, customer_contexts, historical_recommendations>>

\* `self._historical_assessments[customer_id]`: the caller takes the list
\* that is in the dictionary now
LookupList(w) ==
    /\ call.writers[w].pc = "lookup"
    /\ call' = [call EXCEPT !.writers[w] =
                   [@ EXCEPT !.pc = "append", !.attached = TRUE]]
    /\ UNCHANGED <<ret, session, data, memory>>

\* `.append({"timestamp": datetime.now(), "assessment": assessment})` on the
\* list the caller took; the call returns
AppendSnapshot(w) ==
    /\ call.writers[w].pc = "append"
    /\ LET cid == call.writers[w].customer_id
           entry == [timestamp |-> now, assessment |-> call.writers[w].assessment]
       IN  historical_assessments' =
              IF call.writers[w].attached
              THEN [historical_assessments EXCEPT ![cid] = Append(@, entry)]
              ELSE historical_assessments
    /\ call' = [call EXCEPT !.writers[w].pc = "done"]
    /\ ret' = Returned("store_churn_assessment", "None")
    /\ UNCHANGED <<session, data, customer_contexts, historical_recommendations>>

InitWriters ==
    /\ now = Day0
    /\ catalog = FEATURE_CATALOG
    /\ customers \in {KnownId :> c : c \in DemoCustomers}
    /\ EmptyMemory
    /\ \E serialised \in BOOLEAN :
          call = [op |-> "store_churn_assessment", serialised |-> serialised,
                  writers |-> [w \in Writers |-> IdleWriter]]
    /\ ret = [status |-> "none"]
    /\ NoSession

NextWriters ==
    \E w \in Writers :
        \/ \E cid \in CustomerIds : \E a \in AssessmentInputs : BeginStore(w, cid, a)
        \/ CheckAbsent(w)
        \/ CreateList(w)
        \/ LookupList(w)
        \/ AppendSnapshot(w)

SpecWriters == InitWriters /\ [][NextWriters]_vars

\* the callers whose store_churn_assessment(cid, ..) has returned
Completed(cid) ==
    {w \in Writers : call.writers[w].pc = "done" /\ call.writers[w].customer_id = cid}

\* C28: the history of a customer never holds more snapshots than calls
\* that completed for the customer, and when the calls run one at a time per
\* customer key it holds exactly one snapshot per completed call, the
\* snapshot of every completed call among them.
C28_SerialisedWritersLoseNothing ==
    \A cid \in CustomerIds :
        LET history == GetOrEmpty(historical_assessments, cid)
        IN  /\ Len(history) <= Cardinality(Completed(cid))
            /\ call.serialised =>
                  /\ Len(history) = Cardinality(Completed(cid))
                  /\ \A w \in Completed(cid) :
                        \E i \in 1..Len(history) :
                            history[i].assessment = call.writers[w].assessment

\* two interleaved calls for a customer without history have both returned
\* and the history holds one snapshot: the other one is lost
C28_Witness ==
    /\ ~call.serialised
    /\ Cardinality(Completed(KnownId)) = 2
    /\ Len(historical_assessments[KnownId]) = 1

\* the signals of a returned assessment that fired: every entry but the
\* placeholder of an assessment without signal
FiredSignals(signals) == {i \in 1..Len(signals) : signals[i] # NoSignals}

\* C29: assess_churn_risk returns LOW when fewer than two of the five
\* signals fired and never HIGH when fewer than three fired, and the new
\* customer signal occurs in signals only after the low core adoption
\* signal.
C29_LevelNeedsSignals ==
    Assessed =>
        LET signals == ret.value.signals
            n == Cardinality(FiredSignals(signals))
        IN  /\ n < 2 => ret.value.risk_level = "low"
            /\ n < 3 => ret.value.risk_level # "high"
            /\ \A i \in 1..Len(signals) :
                  signals[i].kind = "new_customer_low_adoption" =>
                      \E j \in 1..(i - 1) : signals[j].kind = "low_core_adoption"

\* a new customer with two signals, low core adoption and low early
\* adoption, is assessed MEDIUM
C29_Witness ==
    /\ Assessed
    /\ Len(ret.value.signals) = 2
    /\ ret.value.signals[1].kind = "low_core_adoption"
    /\ ret.value.signals[2].kind = "new_customer_low_adoption"
    /\ ret.value.risk_level = "medium"

====
